---------------------------- MODULE Spec2Model ----------------------------
(***************************************************************************)
(* Model of the resolc project compiler of foundry-revive-compiler:         *)
(* ResolcProjectCompiler (crates/compilers/src/resolc/project.rs) drives    *)
(* preprocess -> compile -> write_artifacts -> write_cache over the sets of *)
(* sources the dependency graph yields, and ResolcArtifactOutput assigns    *)
(* the artifact paths.                                                      *)
(***************************************************************************)
EXTENDS Integers, Sequences, FiniteSets, TLC

(***************************************************************************)
(* Bounds of the model.                                                     *)
(***************************************************************************)
MaxRuns == 2
MaxEdits == 1

(***************************************************************************)
(* The world: source files, compiler versions, diagnostics.                 *)
(***************************************************************************)
Files == {"A", "B", "C"}
Versions == {6, 7, 8}
ErrCode == 2
NoEntry == [hash |-> -1, vers |-> {}, arts |-> {}]
NoJob == 0

VARIABLES
    project,        \* the Project: files, import edges, pragmas, solc_jobs, no_artifacts, ignored codes
    content,        \* content fingerprint of every source file on disk
    diskCache,      \* the cache file: file -> cache entry
    diskArtifacts,  \* the artifact files: <<file, version, fingerprint compiled from>>
    runNo,          \* number of runs started
    pc,             \* position of the run in ResolcProjectCompiler::compile
    result,         \* what the run returned
    stages,         \* the stages the run has entered, in order
    failedAt,       \* index in stages of the stage that returned Err, 0 if none
    sources,        \* CompilerSources.sources: one record per (version, Sources)
    parJobs,        \* CompilerSources.jobs: Some(n) as n, None as 0
    cache,          \* the in-memory ArtifactsCache
    jobs,           \* the jobs built by CompilerSources::compile
    jstate,         \* per job: pending, running, ok, err, fail, skipped
    worker,         \* per pool thread: the job it runs, NoJob when idle
    results,        \* the (input, output, profile, actually_dirty) tuples returned, per job
    output,         \* the AggregatedCompilerOutput
    compiled_artifacts, \* ArtifactsState.compiled_artifacts
    hist,           \* history of the run: what it wrote, what the previous run left
    contracts,      \* resolc_output_to_artifacts: the VersionedContracts to convert
    existing,       \* ctx.existing_artifacts: the paths of the cached artifacts
    taken,          \* taken_paths_lowercase
    artifacts,      \* the ArtifactsMap built so far: contract and its artifact path
    todo,           \* the contracts still to visit, in the order of the loops
    apc,            \* position in resolc_output_to_artifacts
    source_files,   \* resolc_output_to_artifacts: the VersionedSourceFiles
    out_self,       \* ResolcCompilerOutput::merge: self before the call
    out_other,      \* ResolcCompilerOutput::merge: other
    merged,         \* ResolcCompilerOutput::merge: self after the call
    mpc,            \* position in merge
    called,         \* the function under call, "idle" when none
    arg,            \* the arguments of the call
    ret,            \* what the call returned, once it has
    install         \* the compiler installers: lock file, binary, position of each

vars == <<project, content, diskCache, diskArtifacts, runNo, pc, result, stages,
          failedAt, sources, parJobs, cache, jobs, jstate, worker, results, output,
          compiled_artifacts, hist, contracts, existing, taken, artifacts, todo, apc,
          source_files, out_self, out_other, merged, mpc, called, arg, ret, install>>

runVars == <<project, content, diskCache, diskArtifacts, runNo, pc, result, stages,
             failedAt, sources, parJobs, cache, jobs, jstate, worker, results, output,
             compiled_artifacts, hist>>
pathVars == <<contracts, existing, taken, artifacts, todo, apc, source_files>>
mergeVars == <<out_self, out_other, merged, mpc>>
callVars == <<called, arg, ret, install>>

diskVars == <<content, diskCache, diskArtifacts>>
jobVars == <<jobs, jstate, worker, results>>

(***************************************************************************)
(* Helpers on sets and sequences.                                           *)
(***************************************************************************)
Max(S) == CHOOSE x \in S : \A y \in S : y <= x
Min(S) == CHOOSE x \in S : \A y \in S : x <= y

RECURSIVE SortedSeq(_)
SortedSeq(S) == IF S = {} THEN <<>> ELSE <<Min(S)>> \o SortedSeq(S \ {Min(S)})

RECURSIVE InterAll(_, _)
InterAll(SS, acc) ==
    IF SS = {} THEN acc
    ELSE LET s == CHOOSE x \in SS : TRUE IN InterAll(SS \ {s}, acc \cap s)

IsPrefix(s, t) == Len(s) <= Len(t) /\ \A i \in 1..Len(s) : s[i] = t[i]

(***************************************************************************)
(* The dependency graph (crate::Graph, outside the given sources).          *)
(***************************************************************************)
RECURSIVE ReachFrom(_, _, _)
ReachFrom(imp, frontier, seen) ==
    IF frontier \subseteq seen THEN seen
    ELSE ReachFrom(imp, UNION {imp[x] : x \in frontier}, seen \cup frontier)

\* a file's required set: itself and everything it imports, transitively
required_set(p, f) == ReachFrom(p.imports, {f}, {})

\* the versions that can build f together with everything it imports
compatible(p, f) == InterAll({p.req[g] : g \in required_set(p, f)}, Versions)

resolvable(p) == \A f \in p.files : compatible(p, f) # {}

\* newest-compatible tie-break
chosen(p, f) == Max(compatible(p, f))

\* Graph::into_sources_by_version: one set per chosen version, each the union
\* of the required sets of the files that chose it; every Source starts dirty
into_sources_by_version(p) ==
    LET vs == SortedSeq({chosen(p, f) : f \in p.files})
        setOf(v) == UNION {required_set(p, f) : f \in {g \in p.files : chosen(p, g) = v}}
    IN [i \in 1..Len(vs) |->
            [version |-> vs[i], all |-> setOf(vs[i]), files |-> setOf(vs[i]),
             dirty |-> setOf(vs[i])]]

(***************************************************************************)
(* The projects and configurations the model starts from.                   *)
(***************************************************************************)
NoImports == [f \in Files |-> {}]
AnyVersion == [f \in Files |-> Versions]

Graphs ==
    { \* A(^0.8) imports B(^0.8)
      [files |-> {"A", "B"}, imports |-> [NoImports EXCEPT !["A"] = {"B"}],
       req |-> [f \in Files |-> {8}]],
      \* A(^0.7) imports B(^0.8): no shared version
      [files |-> {"A", "B"}, imports |-> [NoImports EXCEPT !["A"] = {"B"}],
       req |-> [AnyVersion EXCEPT !["A"] = {7}, !["B"] = {8}]],
      \* A(<=7) imports C, B(8) imports C: the sets [A, C] and [B, C]
      [files |-> {"A", "B", "C"},
       imports |-> [NoImports EXCEPT !["A"] = {"C"}, !["B"] = {"C"}],
       req |-> [AnyVersion EXCEPT !["A"] = {7}, !["B"] = {8}]],
      \* A imports B imports C, one set
      [files |-> {"A", "B", "C"},
       imports |-> [NoImports EXCEPT !["A"] = {"B"}, !["B"] = {"C"}],
       req |-> AnyVersion],
      \* two unrelated files with different pragmas: two sets
      [files |-> {"A", "B"}, imports |-> NoImports,
       req |-> [AnyVersion EXCEPT !["A"] = {7}, !["B"] = {8}]],
      \* three unrelated files with different pragmas: three sets
      [files |-> {"A", "B", "C"}, imports |-> NoImports,
       req |-> [AnyVersion EXCEPT !["A"] = {6}, !["B"] = {7}, !["C"] = {8}]] }

Projects ==
    { [files |-> g.files, imports |-> g.imports, req |-> g.req, solc_jobs |-> j,
       no_artifacts |-> na, ignored_error_codes |-> ig] :
        g \in Graphs, j \in {1, 2}, na \in BOOLEAN, ig \in {{}, {ErrCode}} }

EmptyOutput == [errors |-> {}, contracts |-> {}, builds |-> {}]
EmptyCache == [entries |-> [f \in Files |-> NoEntry], artifacts |-> {}, seen |-> {}]
NoHist == [invoked |-> {}, cacheWritten |-> FALSE, artifactsWritten |-> FALSE,
           buildInfosWritten |-> FALSE,
           converted |-> FALSE, changed |-> FALSE, unchanged |-> FALSE,
           prevPersisted |-> FALSE, prevOk |-> FALSE, disk0 |-> <<>>, edits |-> 0]

InitRun ==
    /\ content = [f \in Files |-> 0]
    /\ diskCache = [f \in Files |-> NoEntry]
    /\ diskArtifacts = {}
    /\ runNo = 0
    /\ pc = "idle"
    /\ result = "none"
    /\ stages = <<>>
    /\ failedAt = 0
    /\ sources = <<>>
    /\ parJobs = 0
    /\ cache = EmptyCache
    /\ jobs = <<>>
    /\ jstate = <<>>
    /\ worker = <<>>
    /\ results = <<>>
    /\ output = EmptyOutput
    /\ compiled_artifacts = {}
    /\ hist = NoHist

InitPathsIdle ==
    /\ contracts = {}
    /\ existing = {}
    /\ taken = {}
    /\ artifacts = {}
    /\ todo = <<>>
    /\ apc = "idle"
    /\ source_files = {}

\* ResolcCompilerOutput::default()
DefaultOutput == [errors |-> <<>>, contracts |-> <<>>, sources |-> <<>>]

InitMergeIdle ==
    /\ out_self = DefaultOutput
    /\ out_other = DefaultOutput
    /\ merged = DefaultOutput
    /\ mpc = "idle"

\* no function of the other specifications is under call
InitCallIdle ==
    /\ called = "idle"
    /\ arg = <<>>
    /\ ret = <<>>
    /\ install = <<>>

Init ==
    /\ project \in Projects
    /\ InitRun
    /\ InitPathsIdle
    /\ InitMergeIdle
    /\ InitCallIdle


(***************************************************************************)
(* The artifacts cache (crate::cache::ArtifactsCache, outside the given     *)
(* sources): entries per file, each with the fingerprint last seen, the     *)
(* versions it was compiled with and the versions it has artifacts for.     *)
(***************************************************************************)
\* ArtifactsCache::new: reads the cache file and the artifact files it names
ArtifactsCache_new(dc, da) ==
    [entries |-> dc,
     artifacts |-> {<<a[1], a[2]>> : a \in {x \in da : x[2] \in dc[x[1]].arts}},
     seen |-> {}]

hash_changed(entries, cont, f) == entries[f] # NoEntry /\ entries[f].hash # cont[f]

\* the files that import f, directly or transitively
importers(p, f) == {g \in p.files : f \in required_set(p, g)}

\* drops the entries of the files whose fingerprint changed and of the files
\* that import them
remove_dirty_sources(p, c, cont) ==
    LET changed == {f \in p.files : hash_changed(c.entries, cont, f)}
        dirty == UNION {importers(p, f) : f \in changed}
    IN [c EXCEPT !.entries = [f \in Files |-> IF f \in dirty THEN NoEntry ELSE c.entries[f]]]

\* no entry for the file at this version, or a recorded artifact is missing
is_missing_artifacts(c, f, v) ==
    \/ c.entries[f] = NoEntry
    \/ v \notin c.entries[f].vers
    \/ (v \in c.entries[f].arts /\ <<f, v>> \notin c.artifacts)

\* ArtifactsCache::filter: retains the dirty files and everything they import
cache_filter(p, c, s) ==
    LET dirty == {f \in s.files :
                    \E g \in required_set(p, f) : is_missing_artifacts(c, g, s.version)}
    IN [s EXCEPT !.dirty = dirty,
                 !.files = UNION {required_set(p, f) : f \in dirty}]

(***************************************************************************)
(* ResolcProjectCompiler::with_sources                                      *)
(***************************************************************************)
\* mutant: the graph error is swallowed, every file keeps its own newest version
with_sources_unchecked(p) ==
    LET own(f) == Max(p.req[f])
        vs == SortedSeq({own(f) : f \in p.files})
        setOf(v) == UNION {required_set(p, f) : f \in {g \in p.files : own(g) = v}}
    IN [ok |-> TRUE,
        sources |-> [i \in 1..Len(vs) |->
                        [version |-> vs[i], all |-> setOf(vs[i]), files |-> setOf(vs[i]),
                         dirty |-> setOf(vs[i])]]]

\* Graph::resolve_sources(..)? and into_sources_by_version(..)?
resolve_graph(p) ==
    IF resolvable(p) THEN [ok |-> TRUE, sources |-> into_sources_by_version(p)]
    ELSE [ok |-> FALSE, sources |-> <<>>]

\* mutant: the pool is used whenever there are several sets
jobs_mode_by_sets(solc_jobs, jobs_cnt) == IF jobs_cnt > 1 THEN Max({solc_jobs, 2}) ELSE 0

\* (project.solc_jobs > 1 && jobs_cnt() > 1).then_some(project.solc_jobs)
jobs_mode(solc_jobs, jobs_cnt) == IF solc_jobs > 1 /\ jobs_cnt > 1 THEN solc_jobs ELSE 0

Idle == pc \in {"idle", "done", "failed"}

with_sources ==
    /\ UNCHANGED <<pathVars, mergeVars, callVars>>
    /\ Idle
    /\ runNo < MaxRuns
    /\ runNo' = runNo + 1
    /\ hist' = [NoHist EXCEPT !.unchanged = (runNo >= 1 /\ ~hist.changed),
                              !.prevPersisted = hist.cacheWritten,
                              !.prevOk = (result = "ok"),
                              !.disk0 = <<diskCache, diskArtifacts>>,
                              !.edits = hist.edits]
    /\ stages' = <<>>
    /\ failedAt' = 0
    /\ output' = EmptyOutput
    /\ compiled_artifacts' = {}
    /\ cache' = EmptyCache
    /\ jobs' = <<>>
    /\ jstate' = <<>>
    /\ worker' = <<>>
    /\ results' = <<>>
    /\ LET g == resolve_graph(project) IN
        IF g.ok
        THEN /\ sources' = g.sources
             /\ parJobs' = jobs_mode(project.solc_jobs, Len(g.sources))
             /\ pc' = "new"
             /\ result' = "none"
        ELSE /\ sources' = <<>>
             /\ parJobs' = 0
             /\ pc' = "failed"
             /\ result' = "GraphError"
    /\ UNCHANGED <<project, diskVars>>

(***************************************************************************)
(* ResolcProjectCompiler::preprocess and CompilerSources::filter            *)
(***************************************************************************)
\* mutant: remove_dirty_sources is not called before the sets are filtered
CompilerSources_filter_no_remove(p, c, cont, srcs) ==
    [cache |-> c, sources |-> [i \in DOMAIN srcs |-> cache_filter(p, c, srcs[i])]]

CompilerSources_filter(p, c, cont, srcs) ==
    LET c1 == remove_dirty_sources(p, c, cont)
    IN [cache |-> c1, sources |-> [i \in DOMAIN srcs |-> cache_filter(p, c1, srcs[i])]]

\* mutant: the Err of a stage is noted but the chain goes on to the next stage
Fail_and_go_on(kind) ==
    /\ pc' = CASE Len(stages') = 1 -> "preprocessed"
              [] Len(stages') = 2 -> "compiled"
              [] Len(stages') = 3 -> "artifacts"
              [] OTHER -> "done"
    /\ result' = kind
    /\ failedAt' = Len(stages')

\* the `?` after each stage of
\* self.preprocess()?.compile()?.write_artifacts()?.write_cache()?
Fail(kind) ==
    /\ pc' = "failed"
    /\ result' = kind
    /\ failedAt' = Len(stages')

preprocess ==
    /\ UNCHANGED <<pathVars, mergeVars, callVars>>
    /\ pc = "new"
    /\ stages' = Append(stages, "preprocess")
    /\ \/ /\ Fail("IoError")
          /\ UNCHANGED <<sources, cache>>
       \/ /\ LET r == CompilerSources_filter(project, ArtifactsCache_new(diskCache, diskArtifacts),
                                             content, sources)
             IN /\ cache' = r.cache
                /\ sources' = r.sources
          /\ pc' = "preprocessed"
          /\ UNCHANGED <<result, failedAt>>
    /\ UNCHANGED <<project, diskVars, runNo, parJobs, jobVars, output, compiled_artifacts, hist>>

(***************************************************************************)
(* CompilerSources::compile: the jobs                                       *)
(***************************************************************************)
\* SparseOutputFilter::sparse_sources: the dirty files of the set
sparse_sources(s) == s.dirty

\* mutant: only the dirty files are handed to the compiler
job_input_dirty_only(s) ==
    [version |-> s.version, sources |-> sparse_sources(s), dirty |-> sparse_sources(s)]

\* ResolcVersionedInput::build(sources, ..) with the set's actually_dirty list
job_input(s) ==
    [version |-> s.version, sources |-> s.files, dirty |-> sparse_sources(s)]

\* mutant: a job is pushed for every set
wants_job_always(s) == TRUE

\* mutant: only the set before the cache filter is looked at
wants_job_unfiltered(s) == s.all # {}

\* neither `sources.is_empty()` nor `actually_dirty.is_empty()`
wants_job(s) == s.files # {} /\ sparse_sources(s) # {}

RECURSIVE build_jobs(_)
build_jobs(srcs) ==
    IF srcs = <<>> THEN <<>>
    ELSE (IF wants_job(Head(srcs)) THEN <<job_input(Head(srcs))>> ELSE <<>>)
            \o build_jobs(Tail(srcs))

compile_start ==
    /\ UNCHANGED <<pathVars, mergeVars, callVars>>
    /\ pc = "preprocessed"
    /\ stages' = Append(stages, "compile")
    /\ jobs' = build_jobs(sources)
    /\ jstate' = [i \in DOMAIN jobs' |-> "pending"]
    /\ worker' = [w \in 1..parJobs |-> NoJob]
    /\ results' = <<>>
    /\ pc' = "compiling"
    /\ UNCHANGED <<project, diskVars, runNo, result, failedAt, sources, parJobs, cache,
                   output, compiled_artifacts, hist>>

\* what Resolc::compile can come back with: output without an error diagnostic,
\* output with one, or an Err (spawn or I/O failure, bad output)
Outcomes == {"ok", "err", "fail"}

Finished(st) == st \in {"ok", "err"}
AnyFailed == \E i \in DOMAIN jstate : jstate[i] = "fail"

(***************************************************************************)
(* compile_sequential: jobs.into_iter().map(..compile(..)?..).collect()     *)
(***************************************************************************)
\* mutant: the iterator goes on after an Err
seq_may_invoke_after_err(st, k) ==
    /\ st[k] = "pending"
    /\ \A i \in 1..(k - 1) : st[i] \notin {"pending", "running"}

\* mutant: any item is taken next, not the first that is left
seq_may_invoke_any(st, k) ==
    /\ st[k] = "pending"
    /\ \A i \in DOMAIN st : st[i] \in {"pending", "ok", "err"}

\* Resolc::compile(&input.input): the output is that of the input it is given
Resolc_compile(input, o) == [of |-> input, status |-> o]

\* mutant: the dirty files of the tuple are those of the first job
result_tuple_first_dirty(js, k, o) ==
    [input |-> js[k], output |-> Resolc_compile(js[k], o), dirty |-> js[1].dirty]

\* Ok((input, output, profile, actually_dirty)): the closure owns its item
\* and returns it with the output of its own invocation
result_tuple(js, k, o) ==
    [input |-> js[k], output |-> Resolc_compile(js[k], o), dirty |-> js[k].dirty]

\* the item of job k after its closure returned: the tuple, or nothing on Err
returned(rs, js, k, o) == IF o = "fail" THEN rs ELSE rs @@ (k :> result_tuple(js, k, o))

\* the next item is taken only while every earlier one returned Ok
seq_may_invoke(st, k) ==
    /\ st[k] = "pending"
    /\ \A i \in 1..(k - 1) : Finished(st[i])

\* the closure is entered for the next item: compiler.compile(&input.input)
seq_invoke ==
    /\ UNCHANGED <<pathVars, mergeVars, callVars>>
    /\ pc = "compiling"
    /\ parJobs = 0
    /\ \E k \in DOMAIN jobs :
        /\ seq_may_invoke(jstate, k)
        /\ jstate' = [jstate EXCEPT ![k] = "running"]
        /\ hist' = [hist EXCEPT !.invoked = @ \cup {k}]
    /\ UNCHANGED <<project, diskVars, runNo, pc, result, stages, failedAt, sources, parJobs,
                   cache, jobs, worker, results, output, compiled_artifacts>>

\* compiler.compile returns and the closure with it
seq_return ==
    /\ UNCHANGED <<pathVars, mergeVars, callVars>>
    /\ pc = "compiling"
    /\ parJobs = 0
    /\ \E k \in DOMAIN jobs, o \in Outcomes :
        /\ jstate[k] = "running"
        /\ jstate' = [jstate EXCEPT ![k] = o]
        /\ results' = returned(results, jobs, k, o)
    /\ UNCHANGED <<project, diskVars, runNo, pc, result, stages, failedAt, sources, parJobs,
                   cache, jobs, worker, output, compiled_artifacts, hist>>

(***************************************************************************)
(* compile_parallel: jobs.into_par_iter().map(..).collect() in a pool of    *)
(* num_jobs threads                                                         *)
(***************************************************************************)
\* mutant: the threads go on taking items after an Err
may_take_after_err(st, k) == st[k] = "pending"

\* collect::<Result<_>>(): an item is taken only while no closure has returned
\* an Err
may_take(st, k) ==
    /\ st[k] = "pending"
    /\ \A i \in DOMAIN st : st[i] # "fail"

\* mutant: a thread takes an item while it runs another
idle_thread_or_busy(wk, w) == TRUE

\* a thread of the pool takes an item only when it runs none
idle_thread(wk, w) == wk[w] = NoJob

par_start ==
    /\ UNCHANGED <<pathVars, mergeVars, callVars>>
    /\ pc = "compiling"
    /\ parJobs > 0
    /\ \E w \in DOMAIN worker, k \in DOMAIN jobs :
        /\ idle_thread(worker, w)
        /\ may_take(jstate, k)
        /\ worker' = [worker EXCEPT ![w] = k]
        /\ jstate' = [jstate EXCEPT ![k] = "running"]
        /\ hist' = [hist EXCEPT !.invoked = @ \cup {k}]
    /\ UNCHANGED <<project, diskVars, runNo, pc, result, stages, failedAt, sources, parJobs,
                   cache, jobs, results, output, compiled_artifacts>>

par_finish ==
    /\ UNCHANGED <<pathVars, mergeVars, callVars>>
    /\ pc = "compiling"
    /\ \E w \in DOMAIN worker, o \in Outcomes :
        /\ worker[w] # NoJob
        /\ jstate' = [jstate EXCEPT ![worker[w]] = o]
        /\ results' = returned(results, jobs, worker[w], o)
        /\ worker' = [worker EXCEPT ![w] = NoJob]
    /\ UNCHANGED <<project, diskVars, runNo, pc, result, stages, failedAt, sources, parJobs,
                   cache, jobs, output, compiled_artifacts, hist>>

\* an item no thread has taken when the Err is seen is dropped without being
\* mapped
par_skip ==
    /\ UNCHANGED <<pathVars, mergeVars, callVars>>
    /\ pc = "compiling"
    /\ parJobs > 0
    /\ AnyFailed
    /\ \E k \in DOMAIN jobs :
        /\ jstate[k] = "pending"
        /\ jstate' = [jstate EXCEPT ![k] = "skipped"]
    /\ UNCHANGED <<project, diskVars, runNo, pc, result, stages, failedAt, sources, parJobs,
                   cache, jobs, worker, results, output, compiled_artifacts, hist>>

\* mutant: the collect returns once every item is taken by a thread
Collected_before_join ==
    \A i \in DOMAIN jstate : jstate[i] # "pending"

\* mutant: the collect returns as soon as one invocation has returned
Collected_at_first_return ==
    \E i \in DOMAIN jstate : Finished(jstate[i])

\* mutant: the pool returns at the first Err without joining its threads
Collected_at_first_err ==
    AnyFailed \/ \A i \in DOMAIN jstate : Finished(jstate[i])

\* the collect has returned: sequentially at the first Err or after the last
\* job, in the pool when no item is left and every thread is idle
Collected ==
    IF parJobs = 0
    THEN /\ \A i \in DOMAIN jstate : jstate[i] # "running"
         /\ AnyFailed \/ \A i \in DOMAIN jstate : Finished(jstate[i])
    ELSE \A i \in DOMAIN jstate : jstate[i] \notin {"pending", "running"}

(***************************************************************************)
(* CompilerSources::compile: collecting the results                         *)
(***************************************************************************)
\* the files the compiler returns contracts for: every file of its input when
\* it reports no error, none when it reports one
compiler_contracts(job, st) == IF st = "ok" THEN job.sources ELSE {}

compiler_errors(k, st) ==
    IF st = "err" THEN {[code |-> ErrCode, severity |-> "error", job |-> k]} ELSE {}

\* ResolcCompilerOutput::retain_files
retain_files(files, keep) == {f \in files : f \in keep}

\* the loop over the results: compiler_seen, retain_files, aggregated.extend
aggregate(rs) ==
    [errors |-> UNION {compiler_errors(k, rs[k].output.status) : k \in DOMAIN rs},
     contracts |-> UNION {{<<f, rs[k].input.version>> :
                             f \in retain_files(compiler_contracts(rs[k].output.of,
                                                                   rs[k].output.status),
                                                rs[k].dirty)} :
                          k \in DOMAIN rs},
     builds |-> {rs[k].input.version : k \in DOMAIN rs}]

compiler_seen(rs) ==
    UNION {{<<f, rs[k].input.version>> : f \in rs[k].dirty} : k \in DOMAIN rs}

\* mutant: an Err among the results is dropped and the rest is aggregated
results_ok_ignoring_err(st) == TRUE

\* `}?;` on the collected CompilationResult
results_ok(st) == \A i \in DOMAIN st : st[i] # "fail"

compile_join ==
    /\ UNCHANGED <<pathVars, mergeVars, callVars>>
    /\ pc = "compiling"
    /\ Collected
    /\ UNCHANGED stages
    /\ IF results_ok(jstate)
       THEN /\ output' = aggregate(results)
            /\ cache' = [cache EXCEPT !.seen = compiler_seen(results)]
            /\ pc' = "compiled"
            /\ UNCHANGED <<result, failedAt>>
       ELSE /\ Fail("InvocationError")
            /\ UNCHANGED <<output, cache>>
    /\ UNCHANGED <<project, diskVars, runNo, sources, parJobs, jobVars,
                   compiled_artifacts, hist>>

(***************************************************************************)
(* CompiledState::write_artifacts                                           *)
(***************************************************************************)
\* AggregatedCompilerOutput::has_error (outside the given sources): a
\* diagnostic of error severity whose code is not ignored
has_error(out, p) ==
    \E e \in out.errors : e.severity = "error" /\ e.code \notin p.ignored_error_codes

\* resolc_output_to_artifacts / output_to_artifacts: convert, write nothing
output_to_artifacts(cs) == cs

\* mutant: the artifacts are written whenever artifacts are enabled
writes_artifacts_with_errors(no_artifacts, has_err) == ~no_artifacts

\* the branch of write_artifacts that goes through on_output
writes_artifacts(no_artifacts, has_err) == ~no_artifacts /\ ~has_err

\* Artifacts::write_all
write_all(da, arts, cont) ==
    {a \in da : <<a[1], a[2]>> \notin arts} \cup {<<a[1], a[2], cont[a[1]]>> : a \in arts}

write_artifacts ==
    /\ UNCHANGED <<pathVars, mergeVars, callVars>>
    /\ pc = "compiled"
    /\ stages' = Append(stages, "write_artifacts")
    /\ LET arts == output_to_artifacts(output.contracts) IN
        IF writes_artifacts(project.no_artifacts, has_error(output, project))
        THEN \/ \* on_output(..)? fails before anything is written
                /\ Fail("IoError")
                /\ UNCHANGED <<diskArtifacts, compiled_artifacts, hist>>
             \/ \* the artifacts are written, write_build_infos(..)? fails
                /\ Fail("IoError")
                /\ diskArtifacts' = write_all(diskArtifacts, arts, content)
                /\ hist' = [hist EXCEPT !.artifactsWritten = TRUE]
                /\ UNCHANGED compiled_artifacts
             \/ /\ diskArtifacts' = write_all(diskArtifacts, arts, content)
                /\ compiled_artifacts' = arts
                /\ hist' = [hist EXCEPT !.artifactsWritten = TRUE, !.buildInfosWritten = TRUE,
                                         !.converted = TRUE]
                /\ pc' = "artifacts"
                /\ UNCHANGED <<result, failedAt>>
        ELSE /\ compiled_artifacts' = arts
             /\ hist' = [hist EXCEPT !.converted = TRUE]
             /\ pc' = "artifacts"
             /\ UNCHANGED <<diskArtifacts, result, failedAt>>
    /\ UNCHANGED <<project, content, diskCache, runNo, sources, parJobs, cache, jobVars,
                   output>>

(***************************************************************************)
(* ArtifactsState::write_cache                                              *)
(***************************************************************************)
\* mutant: only no_artifacts is looked at
skip_write_unless_errors_forgotten(no_artifacts, has_err) == no_artifacts

\* mutant: the cache is written by every run
skip_write_to_disk_never(no_artifacts, has_err) == FALSE

\* let skip_write_to_disk = project.no_artifacts || has_error;
skip_write_to_disk(no_artifacts, has_err) == no_artifacts \/ has_err

\* ArtifactsCache::consume (outside the given sources): the entries of the
\* files that were compiled get the new fingerprint and artifacts, the entries
\* of files no longer in the project are dropped
consume(p, c, compiled, cont) ==
    [f \in Files |->
        LET vc == {v \in Versions : <<f, v>> \in c.seen} IN
        IF f \notin p.files THEN NoEntry
        ELSE IF vc = {} THEN c.entries[f]
        ELSE [hash |-> cont[f],
              vers |-> c.entries[f].vers \cup vc,
              arts |-> (c.entries[f].arts \ vc) \cup {v \in vc : <<f, v>> \in compiled}]]

write_cache ==
    /\ UNCHANGED <<pathVars, mergeVars, callVars>>
    /\ pc = "artifacts"
    /\ stages' = Append(stages, "write_cache")
    /\ LET skip == skip_write_to_disk(project.no_artifacts, has_error(output, project))
           entries == consume(project, cache, compiled_artifacts, content)
       IN \/ \* cache.consume(.., true)? fails to write the cache file
             /\ ~skip
             /\ Fail("IoError")
             /\ UNCHANGED <<diskCache, hist>>
          \/ /\ diskCache' = IF skip THEN diskCache ELSE entries
             /\ hist' = [hist EXCEPT !.cacheWritten = ~skip]
             /\ pc' = "done"
             /\ result' = "ok"
             /\ UNCHANGED failedAt
    /\ UNCHANGED <<project, content, diskArtifacts, runNo, sources, parJobs, cache, jobVars,
                   output, compiled_artifacts>>

(***************************************************************************)
(* Between two runs: the user edits a source file or deletes an artifact.   *)
(***************************************************************************)
edit_file ==
    /\ UNCHANGED <<pathVars, mergeVars, callVars>>
    /\ Idle
    /\ runNo \in 1..(MaxRuns - 1)
    /\ hist.edits < MaxEdits
    /\ \E f \in project.files : content' = [content EXCEPT ![f] = 1 - content[f]]
    /\ hist' = [hist EXCEPT !.changed = TRUE, !.edits = @ + 1]
    /\ UNCHANGED <<project, diskCache, diskArtifacts, runNo, pc, result, stages, failedAt,
                   sources, parJobs, cache, jobVars, output, compiled_artifacts>>

delete_artifact ==
    /\ UNCHANGED <<pathVars, mergeVars, callVars>>
    /\ Idle
    /\ runNo \in 1..(MaxRuns - 1)
    /\ hist.edits < MaxEdits
    /\ \E a \in diskArtifacts : diskArtifacts' = diskArtifacts \ {a}
    /\ hist' = [hist EXCEPT !.changed = TRUE, !.edits = @ + 1]
    /\ UNCHANGED <<project, content, diskCache, runNo, pc, result, stages, failedAt,
                   sources, parJobs, cache, jobVars, output, compiled_artifacts>>

Next ==
    \/ with_sources
    \/ preprocess
    \/ compile_start
    \/ seq_invoke
    \/ seq_return
    \/ par_start
    \/ par_finish
    \/ par_skip
    \/ compile_join
    \/ write_artifacts
    \/ write_cache
    \/ edit_file
    \/ delete_artifact

Spec == Init /\ [][Next]_vars

(***************************************************************************)
(* Properties of the compile state machine.                                 *)
(***************************************************************************)
StageOrder == <<"preprocess", "compile", "write_artifacts", "write_cache">>

\* C1: a run enters preprocess, compile, write_artifacts, write_cache in that
\* order, each at most once and never an earlier one again; once a stage has
\* returned an error no later stage is entered and the run ends with that error
C1_StagesInOrder ==
    /\ IsPrefix(stages, StageOrder)
    /\ (failedAt # 0 => failedAt = Len(stages) /\ pc = "failed"
                        /\ result \in {"IoError", "InvocationError"})
    /\ (pc = "failed" /\ stages # <<>> => failedAt = Len(stages))
    /\ (pc = "done" => stages = StageOrder /\ result = "ok" /\ failedAt = 0)

C1_Witness ==
    pc = "failed" /\ result = "InvocationError" /\ stages = <<"preprocess", "compile">>

\* C2: the cache file is written only by a run whose output has no error
\* (ignored codes applied) and with artifacts enabled; a run with errors or
\* with no_artifacts leaves the cache file as it was when the run started
C2_CacheOnlyWithoutErrors ==
    runNo >= 1 =>
        /\ (hist.cacheWritten \/ diskCache # hist.disk0[1]) =>
                /\ ~project.no_artifacts
                /\ ~has_error(output, project)
                /\ pc = "done"
        /\ (project.no_artifacts \/ has_error(output, project)) =>
                diskCache = hist.disk0[1]

C2_Witness ==
    /\ pc = "done"
    /\ has_error(output, project)
    /\ ~project.no_artifacts
    /\ diskCache = hist.disk0[1]
    /\ consume(project, cache, compiled_artifacts, content) # diskCache

JobContracts(k) == {<<f, jobs[k].version>> : f \in jobs[k].dirty}
CompileReturned == stages # <<>> /\ Len(stages) >= 2 /\ pc # "compiling"

\* C4 as stated: when one invocation fails and another succeeds, the Compile
\* stage yields an aggregated output with the successful set's contracts and
\* an error entry for the failed invocation
C4_Original ==
    (/\ CompileReturned
     /\ \E i \in DOMAIN jstate : jstate[i] = "fail"
     /\ \E j \in DOMAIN jstate : jstate[j] = "ok")
        => /\ pc # "failed"
           /\ \A j \in DOMAIN jstate : jstate[j] = "ok" => JobContracts(j) \subseteq output.contracts
           /\ output.errors # {}

\* C4 amended: when an invocation fails the Compile stage returns that error
\* and no aggregated output, the contracts of the invocations that succeeded
\* being dropped, and sequentially no job after the failed one is invoked;
\* when every invocation returns an output, the aggregated output has the
\* contracts of each that reported no error and an error entry for each that
\* reported one
C4_FailureAbortsCompile ==
    /\ (CompileReturned /\ AnyFailed) =>
            /\ pc = "failed"
            /\ result = "InvocationError"
            /\ stages = <<"preprocess", "compile">>
            /\ output = EmptyOutput
    /\ (parJobs = 0) =>
            \A k \in DOMAIN jstate :
                (\E i \in 1..(k - 1) : jstate[i] = "fail") =>
                    jstate[k] = "pending" /\ k \notin hist.invoked
    /\ (pc \in {"compiled", "artifacts", "done"}) =>
            \A k \in DOMAIN jstate :
                /\ jstate[k] \in {"ok", "err"}
                /\ jstate[k] = "ok" => JobContracts(k) \subseteq output.contracts
                /\ jstate[k] = "err" => \E e \in output.errors : e.job = k

C4_Witness ==
    /\ pc = "failed"
    /\ parJobs = 0
    /\ \E i, j \in DOMAIN jstate : jstate[i] = "ok" /\ jstate[j] = "fail"

\* C5 as stated: in parallel mode, when one invocation fails, every other job
\* is still invoked and runs to completion before the run is reported failed
C5_Original ==
    (parJobs > 0 /\ pc = "failed" /\ result = "InvocationError") =>
        \A k \in DOMAIN jstate : k \in hist.invoked /\ jstate[k] \in Outcomes

\* C5 amended: in parallel mode, when one invocation fails, every invocation
\* that was started runs to completion and the run is reported as failed only
\* after all of them have finished; a job that was not started is dropped
\* without being invoked
C5_StartedJobsFinish ==
    (parJobs > 0 /\ CompileReturned) =>
        /\ \A w \in DOMAIN worker : worker[w] = NoJob
        /\ \A k \in DOMAIN jstate :
            /\ k \in hist.invoked => jstate[k] \in Outcomes
            /\ k \notin hist.invoked => jstate[k] = "skipped" /\ AnyFailed

C5_Witness ==
    /\ parJobs > 0
    /\ pc = "failed"
    /\ result = "InvocationError"
    /\ \E i, j \in DOMAIN jstate : jstate[i] = "fail" /\ jstate[j] = "skipped"

(***************************************************************************)
(* Properties of the cache filter and of the dependency graph.              *)
(***************************************************************************)
\* nothing on disk was touched between the previous run and this one
RerunUnchanged == runNo >= 2 /\ hist.unchanged /\ ~hist.changed

DiskAsBefore == diskCache = hist.disk0[1] /\ diskArtifacts = hist.disk0[2]

\* C6 as stated: compiling twice with no change in between performs no
\* compiler invocation on the second run and leaves artifacts and cache as
\* the first run wrote them
C6_Original ==
    (RerunUnchanged /\ hist.prevOk) => hist.invoked = {} /\ DiskAsBefore

\* C6 amended: the second of two runs with no change in between performs no
\* compiler invocation, every set being filtered to empty and skipped, and
\* leaves artifacts and cache as they were, provided the first run persisted
\* its cache (it had no error that is not ignored and artifacts enabled)
C6_RerunIsNoop ==
    (RerunUnchanged /\ hist.prevPersisted) =>
        /\ hist.invoked = {}
        /\ jobs = <<>>
        /\ (pc \notin {"new", "failed"} =>
                \A i \in DOMAIN sources : sources[i].files = {} /\ sources[i].dirty = {})
        /\ DiskAsBefore

C6_Witness ==
    /\ RerunUnchanged
    /\ hist.prevPersisted
    /\ pc = "done"
    /\ \E f \in Files : diskCache[f] # NoEntry /\ diskCache[f].arts # {}

\* dirty on its own account: no entry for the version, fingerprint changed,
\* or a recorded artifact file is missing
OwnDirty(f, v) ==
    \/ diskCache[f] = NoEntry
    \/ v \notin diskCache[f].vers
    \/ diskCache[f].hash # content[f]
    \/ (v \in diskCache[f].arts /\ ~\E a \in diskArtifacts : a[1] = f /\ a[2] = v)

\* C7: after the cache filter a file of a set is dirty exactly if it is dirty
\* on its own account or one of the files it imports is dirty; so if A imports
\* B, directly or not, and B's fingerprint changed, both A and B are dirty
C7_DirtyPropagation ==
    pc = "preprocessed" =>
        \A i \in DOMAIN sources :
            LET s == sources[i] IN
            /\ s.dirty \subseteq s.all
            /\ \A f \in s.all :
                f \in s.dirty <=>
                    (OwnDirty(f, s.version) \/ \E g \in project.imports[f] : g \in s.dirty)
            /\ \A a \in s.all : \A b \in required_set(project, a) :
                hash_changed(diskCache, content, b) => {a, b} \subseteq s.dirty

C7_Witness ==
    /\ pc = "preprocessed"
    /\ \E i \in DOMAIN sources : \E a \in sources[i].all : \E b \in project.imports[a] :
        /\ hash_changed(diskCache, content, b)
        /\ ~OwnDirty(a, sources[i].version)
        /\ a \in sources[i].dirty

closed(p, S) == \A f \in S : p.imports[f] \subseteq S

\* C8: every set the graph yields, every set left by the cache filter and
\* every set handed to a compiler invocation holds, with each of its files,
\* all the files that file imports
C8_SetsClosedUnderImports ==
    /\ \A i \in DOMAIN sources :
        /\ closed(project, sources[i].all)
        /\ closed(project, sources[i].files)
        /\ sources[i].dirty \subseteq sources[i].files
    /\ \A k \in DOMAIN jobs :
        /\ closed(project, jobs[k].sources)
        /\ jobs[k].dirty \subseteq jobs[k].sources

C8_Witness ==
    \E k \in DOMAIN jobs :
        /\ k \in hist.invoked
        /\ jobs[k].dirty # jobs[k].sources
        /\ \E f \in jobs[k].dirty : project.imports[f] # {}

\* C9: when no version satisfies a file together with its imports, the run
\* fails with a graph error before any stage: no invocation is made and no
\* artifact or cache file is ever written
C9_UnresolvableFailsEarly ==
    (runNo >= 1 /\ ~resolvable(project)) =>
        /\ pc = "failed"
        /\ result = "GraphError"
        /\ stages = <<>>
        /\ jobs = <<>>
        /\ hist.invoked = {}
        /\ diskArtifacts = {}
        /\ \A f \in Files : diskCache[f] = NoEntry

C9_Witness ==
    /\ runNo >= 1
    /\ ~resolvable(project)
    /\ result = "GraphError"
    /\ project.imports["A"] = {"B"}

(***************************************************************************)
(* ResolcArtifactOutput::resolc_output_to_artifacts: artifact paths.        *)
(* A name is its lowercase form and whether it has an uppercase letter; a   *)
(* source path is the sequence of its components; an artifact path is       *)
(* <file name>/<contract name>[.<version>][.<profile>][_<num>].json         *)
(***************************************************************************)
MaxContracts == 3

N(base, up) == [base |-> base, up |-> up]

\* str::to_lowercase
to_lowercase(n) == [n EXCEPT !.up = FALSE]

SourcePaths ==
    { <<N("src", FALSE), N("foo.sol", TRUE)>>,               \* src/Foo.sol
      <<N("src", FALSE), N("foo.sol", FALSE)>>,              \* src/foo.sol
      <<N("src", FALSE), N("a", FALSE), N("foo.sol", TRUE)>> }  \* src/a/Foo.sol
ContractNames == {N("foo", TRUE), N("foo", FALSE)}
Profiles == {"default", "opt"}

ContractVersions == {7, 8}

VersionedContract == [file : SourcePaths, name : ContractNames, version : ContractVersions,
                      profile : Profiles]

ArtifactPath(file, name, version, profile, num) ==
    [file |-> file, name |-> name, version |-> version, profile |-> profile, num |-> num]

\* a.path.to_slash_lossy().to_lowercase()
lower_path(a) == [a EXCEPT !.file = to_lowercase(a.file), !.name = to_lowercase(a.name)]

ExistingChoices ==
    { {},
      {ArtifactPath(N("foo.sol", TRUE), N("foo", TRUE), 0, "", 0)},
      {ArtifactPath(N("foo.sol", FALSE), N("foo", FALSE), 0, "", 0),
       ArtifactPath(N("foo.sol", TRUE), N("foo", TRUE), 0, "", 1)} }

\* byte order of the names: an uppercase letter sorts before its lowercase
BaseOrd ==
    ("a" :> 1) @@ ("foo" :> 2) @@ ("foo.sol" :> 3) @@ ("lib" :> 4) @@ ("lib.sol" :> 5)
        @@ ("src" :> 6)
NameOrd(n) == 2 * BaseOrd[n.base] + (IF n.up THEN 0 ELSE 1)
ProfileOrd == ("default" :> 1) @@ ("opt" :> 2)

RECURSIVE LexLess(_, _)
LexLess(p, q) ==
    IF q = <<>> THEN FALSE
    ELSE IF p = <<>> THEN TRUE
    ELSE IF Head(p) = Head(q) THEN LexLess(Tail(p), Tail(q))
    ELSE NameOrd(Head(p)) < NameOrd(Head(q))

\* mutant: the files are visited in path order
file_less_by_path(f1, f2) == LexLess(f1, f2)

\* (file1.components().count(), file1).cmp(&(file2.components().count(), file2))
file_less(f1, f2) == Len(f1) < Len(f2) \/ (Len(f1) = Len(f2) /\ LexLess(f1, f2))

\* the order in which the loops visit the contracts: files sorted, then the
\* names of a file in map order, then the versioned contracts of a name
visit_less(t, u) ==
    \/ file_less(t.file, u.file)
    \/ /\ t.file = u.file
       /\ \/ NameOrd(t.name) < NameOrd(u.name)
          \/ /\ t.name = u.name
             /\ \/ t.version < u.version
                \/ t.version = u.version /\ ProfileOrd[t.profile] < ProfileOrd[u.profile]

RECURSIVE visit_order(_)
visit_order(S) ==
    IF S = {} THEN <<>>
    ELSE LET t == CHOOSE x \in S : \A y \in S \ {x} : visit_less(x, y)
         IN <<t>> \o visit_order(S \ {t})

\* mutant: the versions of all the contracts of the file are counted
unique_versions_of_file(cs, t) == {c.version : c \in {x \in cs : x.file = t.file}}

unique_versions(cs, t) == {c.version : c \in {x \in cs : x.file = t.file /\ x.name = t.name}}
unique_profiles(cs, t) == {c.profile : c \in {x \in cs : x.file = t.file /\ x.name = t.name}}

\* ArtifactOutput::output_file (outside the given sources): the canonical
\* name, with the version and the profile appended when asked for
output_file(t, with_version, with_profile) ==
    ArtifactPath(t.file[Len(t.file)], t.name,
                 IF with_version THEN t.version ELSE 0,
                 IF with_profile THEN t.profile ELSE "", 0)

\* on a collision the path is numbered with the first free number
conflict_free_output_file(tk, path) ==
    [path EXCEPT !.num = Min({k \in 1..(Cardinality(tk) + 1) :
                                lower_path([path EXCEPT !.num = k]) \notin tk})]

\* ArtifactOutput::get_artifact_path (outside the given sources)
get_artifact_path(tk, t, with_version, with_profile) ==
    LET path == output_file(t, with_version, with_profile)
    IN IF lower_path(path) \in tk THEN conflict_free_output_file(tk, path) ELSE path

\* mutant: the taken paths start empty
taken_paths_init_empty(ex) == {}

\* let mut taken_paths_lowercase = ctx.existing_artifacts ... to_lowercase()
taken_paths_init(ex) == {lower_path(a) : a \in ex}

\* mutant: the path is recorded as it is, not in lowercase
taken_insert_as_is(tk, path) == tk \cup {path}

\* taken_paths_lowercase.insert(artifact_path.to_slash_lossy().to_lowercase())
taken_insert(tk, path) == tk \cup {lower_path(path)}

\* a source file the compiler returned: whether it has an ast, and whether
\* the ast holds a contract definition
VersionedSourceFile(file, version, profile, ast, definition) ==
    [file |-> file, version |-> version, profile |-> profile, ast |-> ast,
     contract_definition |-> definition]

LibSol == <<N("src", FALSE), N("lib.sol", TRUE)>>     \* src/Lib.sol

\* the source files without a contract in the output: none, one that was
\* parsed and defines no contract, one without an ast, one whose contract
\* is not in the output
OtherSourceFiles ==
    { {},
      {VersionedSourceFile(LibSol, 8, "default", TRUE, FALSE)},
      {VersionedSourceFile(LibSol, 8, "default", FALSE, FALSE)},
      {VersionedSourceFile(LibSol, 8, "default", TRUE, TRUE)} }

\* the source files of the contracts in the output
ContractSourceFiles(cs) ==
    {VersionedSourceFile(c.file, c.version, c.profile, TRUE, TRUE) : c \in cs}

None == [some |-> FALSE]
Some(x) == [some |-> TRUE, value |-> x]

\* fn standalone_source_file_to_artifact(..) -> Option<Self::Artifact> { None }
standalone_source_file_to_artifact(file, source) == None

\* Path::file_stem
file_stem(file) ==
    LET last == file[Len(file)]
    IN N(IF last.base = "lib.sol" THEN "lib" ELSE "foo", last.up)

source_less(s, u) ==
    \/ LexLess(s.file, u.file)
    \/ /\ s.file = u.file
       /\ \/ s.version < u.version
          \/ s.version = u.version /\ ProfileOrd[s.profile] < ProfileOrd[u.profile]

RECURSIVE source_order(_)
source_order(S) ==
    IF S = {} THEN <<>>
    ELSE LET t == CHOOSE x \in S : \A y \in S \ {x} : source_less(x, y)
         IN <<t>> \o source_order(S \ {t})

\* the loop over the source files: a file no contract was mapped to, with an
\* ast and without a contract definition, gets the artifact that
\* standalone_source_file_to_artifact returns, if it returns one
RECURSIVE standalone_loop(_, _, _, _)
standalone_loop(rest, non_standalone_sources, tk, arts) ==
    IF rest = <<>> THEN [taken |-> tk, artifacts |-> arts]
    ELSE LET source == Head(rest)
             same == {x \in source_files : x.file = source.file}
             t == [file |-> source.file, name |-> file_stem(source.file),
                   version |-> source.version, profile |-> source.profile]
             path == get_artifact_path(tk, t,
                                       Cardinality({x.version : x \in same}) > 1,
                                       Cardinality({x.profile : x \in same}) > 1)
         IN IF \/ source.file \in non_standalone_sources
               \/ ~source.ast
               \/ source.contract_definition
               \/ ~standalone_source_file_to_artifact(source.file, source).some
            THEN standalone_loop(Tail(rest), non_standalone_sources, tk, arts)
            ELSE standalone_loop(Tail(rest), non_standalone_sources,
                                 taken_insert(tk, path),
                                 arts \cup {[contract |-> t, file |-> path]})

RunIdle(p) ==
    /\ project = p
    /\ InitRun

InitPaths ==
    /\ RunIdle(CHOOSE p \in Projects : TRUE)
    /\ contracts \in {cs \in SUBSET VersionedContract : Cardinality(cs) \in 1..MaxContracts}
    /\ existing \in ExistingChoices
    /\ taken = {}
    /\ artifacts = {}
    /\ todo = <<>>
    /\ apc = "called"
    /\ \E other \in OtherSourceFiles : source_files = ContractSourceFiles(contracts) \cup other
    /\ InitMergeIdle
    /\ InitCallIdle

\* prepopulates the taken paths with the cached artifacts and sorts the files
convert_start ==
    /\ apc = "called"
    /\ taken' = taken_paths_init(existing)
    /\ todo' = visit_order(contracts)
    /\ artifacts' = {}
    /\ apc' = "loop"
    /\ UNCHANGED <<runVars, mergeVars, callVars, contracts, existing, source_files>>

\* one versioned contract: its artifact path, taken from then on
assign_path ==
    /\ apc = "loop"
    /\ todo # <<>>
    /\ LET t == Head(todo)
           path == get_artifact_path(taken, t,
                                     Cardinality(unique_versions(contracts, t)) > 1,
                                     Cardinality(unique_profiles(contracts, t)) > 1)
       IN /\ taken' = taken_insert(taken, path)
          /\ artifacts' = artifacts \cup {[contract |-> t, file |-> path]}
    /\ todo' = Tail(todo)
    /\ UNCHANGED <<runVars, mergeVars, callVars, contracts, existing, apc, source_files>>

\* the loop over the standalone source files; the Artifacts are returned
convert_return ==
    /\ apc = "loop"
    /\ todo = <<>>
    /\ LET r == standalone_loop(source_order(source_files),
                                {a.contract.file : a \in artifacts}, taken, artifacts)
       IN /\ taken' = r.taken
          /\ artifacts' = r.artifacts
    /\ apc' = "done"
    /\ UNCHANGED <<runVars, mergeVars, callVars, contracts, existing, todo, source_files>>

NextPaths ==
    \/ convert_start
    \/ assign_path
    \/ convert_return

SpecPaths == InitPaths /\ [][NextPaths]_vars

\* C10: the artifact paths assigned in one conversion to two different
\* (file, contract name, version, profile) differ, compared without case
C10_PathsUnique ==
    /\ \A a, b \in artifacts :
        a.contract # b.contract => lower_path(a.file) # lower_path(b.file)
    /\ (apc = "done" => {a.contract : a \in artifacts} = contracts)

C10_Witness ==
    /\ apc = "done"
    /\ \E a, b \in artifacts :
        /\ a.contract.file # b.contract.file
        /\ a.contract.name # b.contract.name
        /\ a.file.num = 0
        /\ b.file.num = 1
        /\ lower_path([b.file EXCEPT !.num = 0]) = lower_path(a.file)

\* C11: a path is assigned only if it is not taken, compared without case;
\* the taken paths are those of the cached artifacts and every path assigned
\* so far; every visited contract gets a path (a collision is no error)
C11_NeverTakenPath ==
    [][/\ \A a \in artifacts' \ artifacts :
            /\ lower_path(a.file) \notin taken
            /\ taken' = taken \cup {lower_path(a.file)}
       /\ apc' \in {"loop", "done"} =>
            /\ taken' = {lower_path(e) : e \in existing'}
                          \cup {lower_path(a.file) : a \in artifacts'}
            /\ apc' = "loop" => {a.contract : a \in artifacts'}
                                    = contracts' \ {todo'[i] : i \in DOMAIN todo'}]_vars

C11_Witness ==
    /\ apc = "done"
    /\ \E a \in artifacts :
        /\ a.file.num >= 1
        /\ lower_path([a.file EXCEPT !.num = 0]) \in {lower_path(e) : e \in existing}

(***************************************************************************)
(* ResolcCompilerOutput::merge (crates/artifacts/resolc/src/lib.rs).        *)
(* errors is a Vec, contracts a BTreeMap from file to a BTreeMap from       *)
(* contract name to contract, sources a BTreeMap from file to SourceFile.   *)
(* A contract and a source file are named after the output they come from.  *)
(***************************************************************************)
MaxErrors == 1

MergeFiles == {"A", "B"}
MergeNames == {"Foo", "Bar"}

\* the maps from a subset of keys to the values
Maps(keys, values) == UNION {[d -> values] : d \in SUBSET keys}

\* the sequences over S of length at most n
SeqsUpTo(S, n) == UNION {[1..k -> S] : k \in 0..n}

CompilerOutputs(tag) ==
    [errors : SeqsUpTo({[code |-> ErrCode, from |-> tag]}, MaxErrors),
     contracts : Maps(MergeFiles, Maps(MergeNames, {tag})),
     sources : Maps(MergeFiles, {tag})]

\* BTreeMap::extend: every pair of the other map is inserted, and an insert
\* under a key that is present replaces the value
BTreeMap_extend(m, o) ==
    [k \in DOMAIN m \cup DOMAIN o |-> IF k \in DOMAIN o THEN o[k] ELSE m[k]]

\* Vec::extend
Vec_extend(v, o) == v \o o

\* ResolcCompilerOutput::merge
ResolcCompilerOutput_merge(a, b) ==
    [errors |-> Vec_extend(a.errors, b.errors),
     contracts |-> BTreeMap_extend(a.contracts, b.contracts),
     sources |-> BTreeMap_extend(a.sources, b.sources)]

InitMerge ==
    /\ RunIdle(CHOOSE p \in Projects : TRUE)
    /\ InitPathsIdle
    /\ out_self \in CompilerOutputs("self")
    /\ out_other \in CompilerOutputs("other")
    /\ merged = DefaultOutput
    /\ mpc = "called"
    /\ InitCallIdle

merge ==
    /\ mpc = "called"
    /\ merged' = ResolcCompilerOutput_merge(out_self, out_other)
    /\ mpc' = "merged"
    /\ UNCHANGED <<runVars, pathVars, callVars, out_self, out_other>>

NextMerge == merge

SpecMerge == InitMerge /\ [][NextMerge]_vars

\* the (file, contract name) entries of an output
Entries(o) ==
    {e \in MergeFiles \X MergeNames :
        e[1] \in DOMAIN o.contracts /\ e[2] \in DOMAIN o.contracts[e[1]]}

Range(q) == {q[i] : i \in DOMAIN q}

\* C12: after merge(self, other) every error of both outputs is in the error
\* list and every (file, contract name) entry of both outputs is present
C12_MergeLosesNothing ==
    mpc = "merged" =>
        /\ Range(out_self.errors) \cup Range(out_other.errors) \subseteq Range(merged.errors)
        /\ Entries(out_self) \cup Entries(out_other) \subseteq Entries(merged)

(***************************************************************************)
(* Standalone artifacts.                                                    *)
(***************************************************************************)
\* the source files that were parsed and define no contract
StandaloneSources == {x \in source_files : x.ast /\ ~x.contract_definition}

HasArtifact(x) == \E a \in artifacts : a.contract.file = x.file /\ a.contract.version = x.version

\* C13: after the conversion every source file that has an ast and defines
\* no contract has an artifact record, and a file without an ast has none
C13_StandaloneArtifacts ==
    apc = "done" =>
        /\ \A x \in StandaloneSources : HasArtifact(x)
        /\ \A x \in source_files : ~x.ast => ~HasArtifact(x)

(***************************************************************************)
(* Scheduling of the invocations.                                           *)
(***************************************************************************)
\* the jobs whose compiler invocation is in progress
Running == {k \in DOMAIN jstate : jstate[k] = "running"}

OnThread == {worker[w] : w \in DOMAIN worker} \ {NoJob}

\* C15: in the pool at most num_jobs invocations are in progress, each on a
\* thread of its own, and a thread runs one invocation at a time
C15_AtMostNumJobsRunning ==
    parJobs > 0 /\ pc = "compiling" =>
        /\ Cardinality(Running) <= parJobs
        /\ Running = OnThread
        /\ \A v, w \in DOMAIN worker : worker[v] = worker[w] /\ worker[v] # NoJob => v = w

\* every thread is busy and a job waits
C15_Witness ==
    /\ pc = "compiling"
    /\ parJobs > 0
    /\ Cardinality(Running) = parJobs
    /\ \E k \in DOMAIN jstate : jstate[k] = "pending"
    /\ ~AnyFailed

C17_WritesAfterJoin ==
    [][(diskCache' # diskCache \/ diskArtifacts' # diskArtifacts) /\ ~Idle =>
        /\ pc \in {"compiled", "artifacts"}
        /\ Running = {}
        /\ \A w \in DOMAIN worker : worker[w] = NoJob
        /\ stages' \in {<<"preprocess", "compile", "write_artifacts">>, StageOrder}]_vars

\* artifacts and cache were written after the invocations of a pool
C17_Witness ==
    /\ pc = "done"
    /\ parJobs > 0
    /\ Cardinality(hist.invoked) >= 2
    /\ hist.artifactsWritten
    /\ hist.cacheWritten

\* C18: the in-memory cache changes only in steps of the driving thread, in
\* preprocess (new, filter) and after the join (compiler_seen), never while
\* an invocation is in progress: from the start of the invocations to their
\* join the cache stays as it is
C18_CacheOnlyDrivingThread ==
    [][/\ cache' # cache =>
            /\ Running = {}
            /\ \A w \in DOMAIN worker : worker[w] = NoJob
            /\ Idle \/ pc = "new" \/ (pc = "compiling" /\ pc' = "compiled")
       /\ pc = "compiling" /\ pc' = "compiling" => cache' = cache]_vars

\* a cache with entries of an earlier run while a thread of the pool is at work
C18_Witness ==
    /\ parJobs > 0
    /\ pc = "compiling"
    /\ Running # {}
    /\ cache.entries # EmptyCache.entries

\* C19: no invocation starts after one has returned an Err; an invocation
\* that has started runs until it returns; compile returns only when none is
\* in progress, with the Err if there is one, else with every job completed
C19_ErrStopsNewInvocations ==
    [][pc = "compiling" =>
        /\ \A k \in DOMAIN jstate :
            /\ jstate[k] = "pending" /\ pc' = "compiling" /\ jstate'[k] = "running"
                    => ~AnyFailed
            /\ jstate[k] = "running" /\ pc' = "compiling"
                    => jstate'[k] \in {"running", "ok", "err", "fail"}
        /\ pc' # "compiling" =>
            /\ Running = {}
            /\ IF AnyFailed
               THEN pc' = "failed" /\ result' = "InvocationError"
               ELSE pc' = "compiled" /\ \A k \in DOMAIN jstate : Finished(jstate[k])]_vars

\* in the pool an invocation failed, one that ran at that time has returned
\* its output, and one that no thread had taken was dropped
C19_Witness ==
    /\ pc = "failed"
    /\ parJobs > 0
    /\ \E i, j, k \in DOMAIN jstate :
        jstate[i] = "fail" /\ jstate[j] = "skipped" /\ Finished(jstate[k])

\* C20: sequentially the jobs are in the order of the sets they were built
\* from, at most one invocation is in progress, a job is invoked only after
\* every job before it has returned its output, and the returned tuples are
\* those of the first jobs, in the order of the jobs
C20_SequentialInOrder ==
    parJobs = 0 /\ pc = "compiling" =>
        /\ jobs = build_jobs(sources)
        /\ \A i, j \in DOMAIN jobs : i < j => jobs[i].version < jobs[j].version
        /\ Cardinality(Running) <= 1
        /\ \A k \in DOMAIN jstate :
            jstate[k] # "pending" => \A i \in 1..(k - 1) : Finished(jstate[i])
        /\ DOMAIN results = 1..Cardinality(DOMAIN results)
        /\ \A i \in DOMAIN results : results[i].input = jobs[i]

\* the first job has returned and the second is in progress
C20_Witness ==
    /\ parJobs = 0
    /\ pc = "compiling"
    /\ Len(jobs) >= 2
    /\ 1 \in DOMAIN results
    /\ jstate[2] = "running"

(***************************************************************************)
(* The specifications of single functions share the variables called, arg   *)
(* and ret; the compile state machine, the path assignment and merge stay   *)
(* idle in them.                                                            *)
(***************************************************************************)
InitOthersIdle ==
    /\ RunIdle(CHOOSE p \in Projects : TRUE)
    /\ InitPathsIdle
    /\ InitMergeIdle
    /\ install = <<>>

\* the function under call returns v
Return(f, v) ==
    /\ called = f
    /\ ret = <<>>
    /\ ret' = <<v>>
    /\ UNCHANGED <<runVars, pathVars, mergeVars, called, arg, install>>

Returned(f) == called = f /\ ret # <<>>

(***************************************************************************)
(* ResolcCompilerOutput::retain_files and its call in                       *)
(* CompilerSources::compile.  A file path is a directory and a file name;   *)
(* the directory is "" for a path relative to the project root.             *)
(***************************************************************************)
MaxRetained == 2

ProjectRoot == "/root"
FilePath(dir, name) == [dir |-> dir, name |-> name]
FileNames == {N("a.sol", FALSE), N("a.sol", TRUE), N("b.sol", FALSE)}

\* the keys of a compiler output: relative to the root, or outside of it
OutputPaths == {FilePath(d, n) : d \in {"", "/ext"}, n \in FileNames}
\* the dirty files: absolute, under the root or outside of it
DirtyPaths == {FilePath(d, n) : d \in {ProjectRoot, "/ext"}, n \in FileNames}

\* f.strip_prefix(root).unwrap_or(f)
strip_prefix(f, root) == IF f.dir = root THEN [f EXCEPT !.dir = ""] ELSE f

\* s.to_string_lossy().to_lowercase()
path_to_lowercase(f) == [f EXCEPT !.name = to_lowercase(f.name)]

\* BTreeMap::retain
BTreeMap_retain(m, keep(_)) == [k \in {x \in DOMAIN m : keep(x)} |-> m[k]]

\* mutant: the paths are compared as they are
ResolcCompilerOutput_retain_files_exact(out, files) ==
    LET keep(f) == f \in files
    IN [out EXCEPT !.contracts = BTreeMap_retain(@, keep),
                   !.sources = BTreeMap_retain(@, keep)]

\* ResolcCompilerOutput::retain_files
ResolcCompilerOutput_retain_files(out, files) ==
    LET lowered == {path_to_lowercase(f) : f \in files}
        keep(f) == path_to_lowercase(f) \in lowered
    IN [out EXCEPT !.contracts = BTreeMap_retain(@, keep),
                   !.sources = BTreeMap_retain(@, keep)]

\* output.retain_files(actually_dirty.iter().map(|f| f.strip_prefix(root).unwrap_or(f)))
retain_dirty(out, actually_dirty, root) ==
    ResolcCompilerOutput_retain_files(out, {strip_prefix(f, root) : f \in actually_dirty})

SmallMaps(keys, values) == {m \in Maps(keys, values) : Cardinality(DOMAIN m) <= MaxRetained}

InitRetain ==
    /\ InitOthersIdle
    /\ called = "retain_files"
    /\ arg \in [output : [errors : SeqsUpTo({[code |-> ErrCode, from |-> "self"]}, MaxErrors),
                          contracts : SmallMaps(OutputPaths, {"contract"}),
                          sources : SmallMaps(OutputPaths, {"source"})],
                actually_dirty : {d \in SUBSET DirtyPaths : Cardinality(d) <= MaxRetained}]
    /\ ret = <<>>

retain_files_call == Return("retain_files", retain_dirty(arg.output, arg.actually_dirty, ProjectRoot))

SpecRetain == InitRetain /\ [][retain_files_call]_vars

\* the same path but for the case of the file name
SameButCase(f, g) == f.dir = g.dir /\ f.name.base = g.name.base

\* the file is one of the dirty files, taken relative to the root
IsDirty(f) == \E d \in arg.actually_dirty : SameButCase(f, strip_prefix(d, ProjectRoot))

\* what is left of a map: the entries of the dirty files, as they were
OnlyDirtyKept(before, after) ==
    /\ DOMAIN after = {f \in DOMAIN before : IsDirty(f)}
    /\ \A f \in DOMAIN after : after[f] = before[f]

\* C21: whatever files the compiler output holds, after retain_files its
\* contracts and sources are those of the dirty files, compared relative to
\* the root and without case, and its errors are as before
C21_OnlyDirtyFilesRetained ==
    Returned("retain_files") =>
        /\ OnlyDirtyKept(arg.output.contracts, ret[1].contracts)
        /\ OnlyDirtyKept(arg.output.sources, ret[1].sources)
        /\ ret[1].errors = arg.output.errors

\* a file outside the dirty files was dropped, and one was kept whose name
\* differs in case from the dirty file
C21_Witness ==
    /\ Returned("retain_files")
    /\ arg.output.errors # <<>>
    /\ \E f \in DOMAIN arg.output.contracts : f \notin DOMAIN ret[1].contracts
    /\ \E f \in DOMAIN ret[1].contracts :
        \A d \in arg.actually_dirty : strip_prefix(d, ProjectRoot) # f

(***************************************************************************)
(* raw_build_info_new and build_context_new (crates/compilers/src/resolc/   *)
(* mod.rs).  md5 is taken as free of collisions: a digest is the sequence   *)
(* of the byte strings the hasher was fed.                                  *)
(***************************************************************************)
ETHERS_FORMAT_VERSION == "ethers-rs-sol-build-info-1"

SemVer(major, minor, patch, pre) ==
    [major |-> major, minor |-> minor, patch |-> patch, pre |-> pre]

SourceNames == {"a.sol", "b.sol"}
PathOrd == ("a.sol" :> 1) @@ ("b.sol" :> 2)
\* ResolcVersionedInput: the flattened ResolcInput and solc_version, one of
\* two versions that differ in the pre-release part only
VersionedInputs ==
    [language : {"Solidity"}, sources : SUBSET SourceNames,
     settings : {"default", "optimized"},
     solc_version : {SemVer(0, 8, 28, ""), SemVer(0, 8, 28, "nightly")}]

\* ResolcCompilerOutput, of which the build info looks at the sources
BuildOutputs == [sources : Maps(SourceNames, {0, 1})]

\* format!("{}.{}.{}", version.major, version.minor, version.patch)
solc_short(v) == <<v.major, v.minor, v.patch>>

\* version.to_string()
Version_to_string(v) == <<v.major, v.minor, v.patch, v.pre>>

\* serde_json::to_value(input): #[serde(flatten)] input, solcVersion
input_to_value(input) ==
    ("language" :> input.language) @@ ("sources" :> input.sources)
        @@ ("settings" :> input.settings)
        @@ ("solcVersion" :> Version_to_string(input.solc_version))

\* serde_json::to_value(output)
output_to_value(out) == ("sources" :> out.sources)

\* md5::Md5 over the updates, hex::encode of the digest
Md5_hex(updates) == [md5 |-> updates]

\* mutant: the output is hashed as well
hasher_updates_with_output(input, out, full_build_info) ==
    <<ETHERS_FORMAT_VERSION, solc_short(input.solc_version),
      Version_to_string(input.solc_version), input_to_value(input),
      output_to_value(out)>>

\* what raw_build_info_new feeds the hasher
hasher_updates(input, out, full_build_info) ==
    <<ETHERS_FORMAT_VERSION, solc_short(input.solc_version),
      Version_to_string(input.solc_version), input_to_value(input)>>

\* mutant: every output source gets an entry
build_context_new_unfiltered(input, out) ==
    LET paths == DOMAIN out.sources
        ids == {out.sources[q] : q \in paths}
        last(i) == CHOOSE q \in paths :
                        /\ out.sources[q] = i
                        /\ \A o \in paths : out.sources[o] = i => PathOrd[o] <= PathOrd[q]
    IN [source_id_to_path |-> [i \in ids |-> last(i)], language |-> input.language]

\* build_context_new: the ids of the output sources that are input sources;
\* the output sources are visited in path order and an insert under an id
\* that is present replaces the path
build_context_new(input, out) ==
    LET paths == {q \in DOMAIN out.sources : q \in input.sources}
        ids == {out.sources[q] : q \in paths}
        last(i) == CHOOSE q \in paths :
                        /\ out.sources[q] = i
                        /\ \A o \in paths : out.sources[o] = i => PathOrd[o] <= PathOrd[q]
    IN [source_id_to_path |-> [i \in ids |-> last(i)], language |-> input.language]

\* mutant: the fields are inserted whatever the flag
build_info_map_always(input, out, full_build_info) ==
    ("_format" :> ETHERS_FORMAT_VERSION)
        @@ ("solcVersion" :> solc_short(input.solc_version))
        @@ ("solcLongVersion" :> input.solc_version)
        @@ ("input" :> input_to_value(input))
        @@ ("output" :> output_to_value(out))

\* the BTreeMap build_info
build_info_map(input, out, full_build_info) ==
    IF full_build_info
    THEN ("_format" :> ETHERS_FORMAT_VERSION)
            @@ ("solcVersion" :> solc_short(input.solc_version))
            @@ ("solcLongVersion" :> input.solc_version)
            @@ ("input" :> input_to_value(input))
            @@ ("output" :> output_to_value(out))
    ELSE <<>>

raw_build_info_new(input, out, full_build_info) ==
    [id |-> Md5_hex(hasher_updates(input, out, full_build_info)),
     build_info |-> build_info_map(input, out, full_build_info),
     build_context |-> build_context_new(input, out)]

\* two invocations, to compare their build infos
InitBuildInfo ==
    /\ InitOthersIdle
    /\ called = "raw_build_info_new"
    /\ LET Invocations == [input : VersionedInputs, output : BuildOutputs,
                           full_build_info : BOOLEAN]
       IN arg \in [a : Invocations, b : Invocations]
    /\ ret = <<>>

raw_build_info_new_call ==
    Return("raw_build_info_new",
           [x \in {"a", "b"} |->
                raw_build_info_new(arg[x].input, arg[x].output, arg[x].full_build_info)])

SpecBuildInfo == InitBuildInfo /\ [][raw_build_info_new_call]_vars

\* C22: two invocations with the same version and input get the same build
\* id, whatever their outputs and flags; the input and output a build info
\* holds are those of its invocation, and so is its source id table
C22_BuildIdFromVersionAndInput ==
    Returned("raw_build_info_new") =>
        /\ arg.a.input = arg.b.input => ret[1].a.id = ret[1].b.id
        /\ \A x \in {"a", "b"} :
            /\ "input" \in DOMAIN ret[1][x].build_info =>
                    ret[1][x].build_info["input"] = input_to_value(arg[x].input)
            /\ "output" \in DOMAIN ret[1][x].build_info =>
                    ret[1][x].build_info["output"] = output_to_value(arg[x].output)
            /\ \A i \in DOMAIN ret[1][x].build_context.source_id_to_path :
                LET q == ret[1][x].build_context.source_id_to_path[i]
                IN q \in arg[x].input.sources /\ arg[x].output.sources[q] = i

\* the same input with different outputs and flags
C22_Witness ==
    /\ Returned("raw_build_info_new")
    /\ arg.a.input = arg.b.input
    /\ arg.a.output # arg.b.output
    /\ arg.a.full_build_info # arg.b.full_build_info
    /\ ret[1].a.id = ret[1].b.id

BuildInfoFields == {"_format", "solcVersion", "solcLongVersion", "input", "output"}

\* C26: the build info record has the fields _format, solcVersion,
\* solcLongVersion, input and output exactly when full_build_info is set and
\* is empty otherwise; the id and the source id table do not depend on the flag
C26_FieldsIffFullBuildInfo ==
    Returned("raw_build_info_new") =>
        /\ \A x \in {"a", "b"} :
            /\ arg[x].full_build_info => DOMAIN ret[1][x].build_info = BuildInfoFields
            /\ ~arg[x].full_build_info => ret[1][x].build_info = <<>>
            /\ \A k \in BuildInfoFields :
                    k \in DOMAIN ret[1][x].build_info <=> arg[x].full_build_info
        /\ (arg.a.input = arg.b.input /\ arg.a.output = arg.b.output) =>
            /\ ret[1].a.id = ret[1].b.id
            /\ ret[1].a.build_context = ret[1].b.build_context

\* the same invocation with and without the flag, with a source id to record
C26_Witness ==
    /\ Returned("raw_build_info_new")
    /\ arg.a.input = arg.b.input /\ arg.a.output = arg.b.output
    /\ arg.a.full_build_info /\ ~arg.b.full_build_info
    /\ DOMAIN ret[1].a.build_info = BuildInfoFields
    /\ ret[1].b.build_info = <<>>
    /\ ret[1].b.build_context.source_id_to_path # <<>>

\* C38: the source-id-to-path table holds id -> path only for output sources
\* whose path is an input path, and every input path present in the output
\* has its id in the table, with that path under it when the compiler gave
\* the sources of the output distinct ids
C38_TableOfInputSourcesInOutput ==
    Returned("raw_build_info_new") =>
        \A x \in {"a", "b"} :
            LET table == ret[1][x].build_context.source_id_to_path
                srcs == arg[x].output.sources
                distinct == \A p, q \in DOMAIN srcs : srcs[p] = srcs[q] => p = q
            IN  /\ \A i \in DOMAIN table :
                      /\ table[i] \in arg[x].input.sources
                      /\ table[i] \in DOMAIN srcs
                      /\ srcs[table[i]] = i
                /\ \A q \in arg[x].input.sources \cap DOMAIN srcs :
                      /\ srcs[q] \in DOMAIN table
                      /\ distinct => table[srcs[q]] = q

C38_Witness ==
    /\ Returned("raw_build_info_new")
    /\ arg.a.input.sources = {"a.sol"}
    /\ arg.a.output.sources = ("a.sol" :> 1) @@ ("b.sol" :> 0)
    /\ ret[1].a.build_context.source_id_to_path = (1 :> "a.sol")
    /\ arg.b.input.sources = {"a.sol", "b.sol"}
    /\ DOMAIN arg.b.output.sources = {"b.sol"}
    /\ DOMAIN ret[1].b.build_context.source_id_to_path = {arg.b.output.sources["b.sol"]}

(***************************************************************************)
(* The build index of ArtifactsState::write_cache.                          *)
(***************************************************************************)
\* the invocations of one run, and the builds kept in the cache
MaxBuilds == 2

\* the compiler numbers the sources of an input in path order
compiler_output(input) ==
    [sources |-> [q \in input.sources |->
                    Cardinality({o \in input.sources : PathOrd[o] < PathOrd[q]})]]

\* RawBuildInfo::new(&input, &output, full_build_info) of an invocation
build_info_of(input) == raw_build_info_new(input, compiler_output(input), FALSE)

\* cached_builds of ArtifactsCache::consume: id to context of the builds of
\* earlier runs that the cache still refers to
cached_builds_of(inputs) ==
    [id \in {build_info_of(i).id : i \in inputs} |->
        build_info_of(CHOOSE i \in inputs : build_info_of(i).id = id).build_context]

\* BuildContext::with_joined_paths
with_joined_paths(context, root) ==
    [context EXCEPT !.source_id_to_path =
        [i \in DOMAIN @ |-> FilePath(root, @[i])]]

\* mutant: the cached builds are left out
builds_index_ran_only(build_infos, cached_builds, root) ==
    LET ran(id) == {i \in DOMAIN build_infos : build_infos[i].id = id}
        last(id) == CHOOSE i \in ran(id) : \A j \in ran(id) : j <= i
    IN [id \in {build_infos[i].id : i \in DOMAIN build_infos} |->
            with_joined_paths(build_infos[last(id)].build_context, root)]

\* Builds(build_infos.iter().map(..).chain(cached_builds).map(..).collect()):
\* of two entries with one id the later of the chain stays
builds_index(build_infos, cached_builds, root) ==
    LET ran(id) == {i \in DOMAIN build_infos : build_infos[i].id = id}
        last(id) == CHOOSE i \in ran(id) : \A j \in ran(id) : j <= i
        context(id) == IF id \in DOMAIN cached_builds THEN cached_builds[id]
                       ELSE build_infos[last(id)].build_context
    IN [id \in {build_infos[i].id : i \in DOMAIN build_infos} \cup DOMAIN cached_builds |->
            with_joined_paths(context(id), root)]

InitBuilds ==
    /\ InitOthersIdle
    /\ called = "write_cache"
    /\ LET inputs == {i \in VersionedInputs : i.settings = "default"} IN
       \E ran \in SeqsUpTo(inputs, MaxBuilds) :
       \E reused \in {c \in SUBSET inputs : Cardinality(c) <= MaxBuilds} :
            arg = [build_infos |-> [i \in DOMAIN ran |-> build_info_of(ran[i])],
                   cached_builds |-> cached_builds_of(reused)]
    /\ ret = <<>>

write_cache_builds ==
    Return("write_cache", builds_index(arg.build_infos, arg.cached_builds, ProjectRoot))

SpecBuilds == InitBuilds /\ [][write_cache_builds]_vars

\* C23: the build index has an entry for the id of every invocation that ran
\* and of every build reused from the cache, and under the id of an
\* invocation that ran it holds the context of that invocation, its paths
\* joined with the root
C23_BuildIndexComplete ==
    Returned("write_cache") =>
        /\ \A i \in DOMAIN arg.build_infos :
            /\ arg.build_infos[i].id \in DOMAIN ret[1]
            /\ ret[1][arg.build_infos[i].id] =
                    with_joined_paths(arg.build_infos[i].build_context, ProjectRoot)
        /\ \A id \in DOMAIN arg.cached_builds : id \in DOMAIN ret[1]

\* two invocations ran, one of them has its id in the cache as well, and
\* the cache has a build that did not run
C23_Witness ==
    /\ Returned("write_cache")
    /\ Len(arg.build_infos) = 2
    /\ arg.build_infos[1].id # arg.build_infos[2].id
    /\ arg.build_infos[1].id \in DOMAIN arg.cached_builds
    /\ arg.build_infos[1].build_context.source_id_to_path # <<>>
    /\ \E id \in DOMAIN arg.cached_builds :
            /\ \A i \in DOMAIN arg.build_infos : arg.build_infos[i].id # id
            /\ id \in DOMAIN ret[1]

(***************************************************************************)
(* Resolc::compile on the level of the subprocess (compilers/resolc/        *)
(* compiler.rs).  The standard output is a sequence of tokens: the braces   *)
(* of an object, one member "version":"1", the number 7, a space and a byte *)
(* that is no UTF-8.                                                        *)
(***************************************************************************)
MaxStdout == 3

Ok(v) == [ok |-> TRUE, value |-> v]
Err(e) == [ok |-> FALSE, error |-> e]

InvalidByte == "\\xff"
Processes ==
    [spawn : {"ok", "io error"}, stdin : {"ok", "io error"}, wait : {"ok", "io error"},
     status : {0, 1}, stderr : {"", "error"},
     stdout : SeqsUpTo({"{", "}", "member", "7", " ", InvalidByte}, MaxStdout)]

\* SolcError::solc_output (outside the given sources): the standard error,
\* the standard output if that is empty
solc_output(stdout, stderr, stdout_blank) ==
    [kind |-> "SolcError",
     msg |-> IF stderr # "" THEN stderr
             ELSE IF ~stdout_blank THEN stdout
             ELSE "<empty output>"]

\* mutant: the standard output is returned whatever the exit status
compile_output_any_status(status, stdout, stderr) == Ok(stdout)

\* fn compile_output(output: Output)
compile_output(status, stdout, stderr) ==
    IF status = 0 THEN Ok(stdout)
    ELSE Err(solc_output(stdout, stderr, SelectSeq(stdout, LAMBDA t : t # " ") = <<>>))

\* Resolc::compile_output: spawn, write the input, wait for the output
Resolc_compile_output(process) ==
    IF process.spawn # "ok" THEN Err([kind |-> "Io", msg |-> process.spawn])
    ELSE IF process.stdin # "ok" THEN Err([kind |-> "Io", msg |-> process.stdin])
    ELSE IF process.wait # "ok" THEN Err([kind |-> "Io", msg |-> process.wait])
    ELSE compile_output(process.status, process.stdout, process.stderr)

\* std::str::from_utf8
from_utf8(bytes) ==
    IF \E i \in DOMAIN bytes : bytes[i] = InvalidByte THEN Err("InvalidUtf8") ELSE Ok(bytes)

\* serde_json::from_str::<ResolcCompilerOutput>: white space around the
\* tokens is skipped, the document is one object, its members all optional
from_str(text) ==
    LET tokens == SelectSeq(text, LAMBDA t : t # " ")
    IN IF tokens = <<"{", "}">> THEN Ok([version |-> None])
       ELSE IF tokens = <<"{", "member", "}">> THEN Ok([version |-> Some("1")])
       ELSE Err([kind |-> "Message", msg |-> "serde_json"])

\* Resolc::compile
Resolc_compile_process(process) ==
    LET stdout_bytes == Resolc_compile_output(process) IN
    IF ~stdout_bytes.ok THEN stdout_bytes
    ELSE LET text == from_utf8(stdout_bytes.value) IN
         IF ~text.ok THEN Err([kind |-> "InvalidUtf8", msg |-> ""])
         ELSE from_str(text.value)

InitResolcCompile ==
    /\ InitOthersIdle
    /\ called = "Resolc::compile"
    /\ arg \in Processes
    /\ ret = <<>>

Resolc_compile_call == Return("Resolc::compile", Resolc_compile_process(arg))

SpecResolcCompile == InitResolcCompile /\ [][Resolc_compile_call]_vars

\* a text of the tokens that is one JSON document: a number, or an object
\* with white space anywhere between its tokens
IsNumber(text) == text # <<>> /\ \A i \in DOMAIN text : text[i] = "7"
IsObject(text) ==
    /\ Len(text) >= 2 /\ text[1] = "{" /\ text[Len(text)] = "}"
    /\ \A i \in 2..(Len(text) - 1) : text[i] \in {" ", "member"}
    /\ Cardinality({i \in DOMAIN text : text[i] = "member"}) <= 1
Trimmed(text) ==
    LET I == {i \in DOMAIN text : text[i] # " "} IN
    IF I = {} THEN <<>>
    ELSE SubSeq(text, CHOOSE i \in I : \A j \in I : i <= j, CHOOSE i \in I : \A j \in I : j <= i)
WellFormedJson(text) == IsNumber(Trimmed(text)) \/ IsObject(Trimmed(text))
ValidUtf8(bytes) == \A i \in DOMAIN bytes : bytes[i] # InvalidByte

\* C24: compile returns an output only if the process was spawned, was fed
\* and waited for, exited with status 0 and wrote valid UTF-8 that is one
\* well-formed JSON document; in every other case it returns an error, which
\* for a non-zero exit carries the standard error of the process
C24_OutputOnlyFromCleanRun ==
    Returned("Resolc::compile") =>
        /\ ret[1].ok =>
            /\ arg.spawn = "ok" /\ arg.stdin = "ok" /\ arg.wait = "ok"
            /\ arg.status = 0
            /\ ValidUtf8(arg.stdout)
            /\ WellFormedJson(arg.stdout)
            /\ ret[1].value.version.some <=> \E i \in DOMAIN arg.stdout : arg.stdout[i] = "member"
        /\ ( \/ arg.spawn # "ok" \/ arg.stdin # "ok" \/ arg.wait # "ok"
             \/ arg.status # 0
             \/ ~ValidUtf8(arg.stdout)
             \/ ~WellFormedJson(arg.stdout) ) => ~ret[1].ok
        /\ (arg.spawn = "ok" /\ arg.stdin = "ok" /\ arg.wait = "ok" /\ arg.status # 0
                /\ arg.stderr # "")
            => ret[1].error.msg = arg.stderr

\* a process that exits with status 1 after writing a well-formed document
C24_Witness ==
    /\ Returned("Resolc::compile")
    /\ arg.spawn = "ok" /\ arg.stdin = "ok" /\ arg.wait = "ok"
    /\ arg.status = 1 /\ arg.stderr = "error"
    /\ arg.stdout = <<"{", "member", "}">>
    /\ ~ret[1].ok /\ ret[1].error.msg = "error"

\* a clean run
C24_WitnessOk ==
    /\ Returned("Resolc::compile")
    /\ arg.status = 0 /\ arg.stdout = <<"{", " ", "}">>
    /\ ret[1].ok

(***************************************************************************)
(* version_from_output (compilers/resolc/compiler.rs).  The standard output *)
(* is a sequence of lines, a line the sequence of its words; white space is *)
(* what separates the words, and a blank line has no word.                  *)
(***************************************************************************)
MaxLines == 2

Plain(text) ==
    [kind |-> "plain", text |-> text, v |-> FALSE, major |-> 0, pre |-> "", build |-> ""]

\* [v]major.1.0[-pre][+build]
Token(v, major, pre, build) ==
    [kind |-> "semver", text |-> "", v |-> v, major |-> major, pre |-> pre, build |-> build]

\* "0.x": begins like a version and is none
BadToken == Plain("0.x")

\* the lines of the standard output: blank, one word, the word version and
\* another word, and a version after a word that only begins like one
StdoutLines ==
    LET tokens == {Token(TRUE, 0, "", ""), Token(FALSE, 0, "", ""), Token(TRUE, 1, "", ""),
                   Token(FALSE, 0, "rc", ""), Token(TRUE, 0, "", "b"),
                   Token(FALSE, 0, "rc", "b")}
        words == {Plain("info"), Plain("version"), BadToken} \cup tokens
    IN {<<>>} \cup {<<w>> : w \in words}
        \cup {<<Plain("version"), w>> : w \in words}
        \cup {<<Plain("version"), BadToken, t>> : t \in tokens}

\* l.contains("version")
contains_version(line) == \E i \in DOMAIN line : line[i] = Plain("version")

\* s.starts_with("0.") || s.starts_with("v0.")
starts_with_0(w) == w = BadToken \/ (w.kind = "semver" /\ w.major = 0)

\* the first element of a sequence that satisfies a test, if any
find(seq, test(_)) ==
    LET I == {i \in DOMAIN seq : test(seq[i])} IN
    IF I = {} THEN None ELSE Some(seq[CHOOSE i \in I : \A j \in I : i <= j])

\* s.trim_start_matches('v').split('+').next(), Version::from_str(trimmed).ok()
parse_trimmed(w) ==
    IF w.kind = "semver"
    THEN Some([major |-> w.major, minor |-> 1, patch |-> 0, pre |-> w.pre, build |-> ""])
    ELSE None

version_from_output(out) ==
    IF out.status = 0
    THEN LET version == find(SelectSeq(out.stdout, LAMBDA l : l # <<>>), contains_version) IN
         IF ~version.some THEN Err("Version not found in resolc output")
         ELSE LET s == find(version.value, starts_with_0) IN
              IF s.some /\ parse_trimmed(s.value).some
              THEN Ok(parse_trimmed(s.value).value)
              ELSE Err("Unable to retrieve version from resolc output")
    ELSE Err(solc_output(out.stdout, out.stderr, \A i \in DOMAIN out.stdout : out.stdout[i] = <<>>))

InitVersion ==
    /\ InitOthersIdle
    /\ called = "version_from_output"
    /\ arg \in [status : {0, 1}, stdout : SeqsUpTo(StdoutLines, MaxLines),
                stderr : {"", "error"}]
    /\ ret = <<>>

version_from_output_call == Return("version_from_output", version_from_output(arg))

SpecVersion == InitVersion /\ [][version_from_output_call]_vars

\* the first line that is not blank and holds the word version, and the
\* first semantic version among its words
FirstVersionLine(stdout) == find(SelectSeq(stdout, LAMBDA l : l # <<>>), contains_version)
IsSemver(w) == w.kind = "semver"
FirstSemver(line) == find(line, IsSemver)

\* C25: for an exit with success the semantic version of the first non-empty
\* line that bears a version is returned (compared up to the build part),
\* whatever the other lines are; an error is returned when the exit status is
\* not zero or when that line has no version
C25_VersionOfFirstVersionLine ==
    Returned("version_from_output") =>
        LET line == FirstVersionLine(arg.stdout) IN
        IF arg.status = 0 /\ line.some /\ FirstSemver(line.value).some
        THEN LET w == FirstSemver(line.value).value IN
             /\ ret[1].ok
             /\ ret[1].value.major = w.major
             /\ ret[1].value.pre = w.pre
        ELSE ~ret[1].ok

\* what the code does: the version is that of the first word that begins
\* with 0. or v0., and it is returned without its build part
VersionOfFirstZeroWord ==
    Returned("version_from_output") =>
        LET line == FirstVersionLine(arg.stdout) IN
        IF arg.status = 0 /\ line.some /\ find(line.value, starts_with_0).some
              /\ IsSemver(find(line.value, starts_with_0).value)
        THEN LET w == find(line.value, starts_with_0).value IN
             /\ ret[1].ok
             /\ ret[1].value = [major |-> 0, minor |-> 1, patch |-> 0, pre |-> w.pre, build |-> ""]
        ELSE ~ret[1].ok

(***************************************************************************)
(* impl From<ResolcContract> for Contract (artifacts/resolc/src/            *)
(* contract.rs): the metadata of the converted contract.                    *)
(***************************************************************************)
\* serde_json values: strings and numbers
JsonString(text) == [type |-> "string", s |-> text]
JsonNumber == [type |-> "number", s |-> ""]

\* the metadata documents solc may have written, by their compiler version
SolcMetadataDocs == ("{compiler:0.8.28}" :> "0.8.28") @@ ("{compiler:0.8.29}" :> "0.8.29")

\* serde_json::Value::Object(map) with some of the three members, each a
\* string or a number
MetadataObjects ==
    LET values ==
            [solc_metadata : {JsonString(d) : d \in DOMAIN SolcMetadataDocs}
                                \cup {JsonString("no json"), JsonNumber},
             revive_version : {JsonString("0.2.0"), JsonString("0.3.0"), JsonNumber},
             solc_version : {JsonString("0.8.29+commit"), JsonString("0.8.28+commit"),
                             JsonNumber}]
    IN UNION {{[k \in keys |-> v[k]] : v \in values} :
                keys \in SUBSET {"solc_metadata", "revive_version", "solc_version"}}

\* map.get(key)
get(map, key) == IF key \in DOMAIN map THEN Some(map[key]) ELSE None

\* Value::as_str
as_str(v) == IF v.type = "string" THEN Some(v.s) ELSE None

\* serde_json::from_value::<LosslessMetadata>(solc_metadata).ok()
from_value_LosslessMetadata(v) ==
    IF v.type = "string" /\ v.s \in DOMAIN SolcMetadataDocs
    THEN Some([raw_metadata |-> <<v.s>>,
               metadata |-> [compiler |-> [version |-> <<SolcMetadataDocs[v.s]>>]]])
    ELSE None

\* format!("{{\"revive\":\"{revive_version}\", \"solc\":\"{solc_version}\"}}")
composite_version(revive_version, solc_version) ==
    <<"{\"revive\":\"", revive_version, "\", \"solc\":\"", solc_version, "\"}">>

\* serde_json::to_string(&solc_metadata.metadata)
metadata_to_string(metadata) == <<"{compiler:">> \o metadata.compiler.version \o <<"}">>

\* mutant: revive_version is enough
revive_and_solc_version_revive_only(map) ==
    LET revive_version == get(map, "revive_version")
        solc_version == get(map, "solc_version")
    IN IF revive_version.some /\ as_str(revive_version.value).some
       THEN Some([revive_version |-> as_str(revive_version.value).value,
                  solc_version |-> IF solc_version.some /\ as_str(solc_version.value).some
                                   THEN as_str(solc_version.value).value ELSE ""])
       ELSE None

\* if let (Some(revive_version), Some(solc_version)) = (.., ..)
revive_and_solc_version(map) ==
    LET revive_version == get(map, "revive_version")
        solc_version == get(map, "solc_version")
    IN IF /\ revive_version.some /\ as_str(revive_version.value).some
          /\ solc_version.some /\ as_str(solc_version.value).some
       THEN Some([revive_version |-> as_str(revive_version.value).value,
                  solc_version |-> as_str(solc_version.value).value])
       ELSE None

\* the metadata of Contract::from(contract)
contract_metadata(metadata) ==
    IF ~metadata.some \/ metadata.value \notin MetadataObjects THEN None
    ELSE LET map == metadata.value
             solc_metadata == IF get(map, "solc_metadata").some
                              THEN from_value_LosslessMetadata(map["solc_metadata"])
                              ELSE None
             versions == revive_and_solc_version(map)
         IN IF ~solc_metadata.some THEN None
            ELSE IF versions.some
            THEN LET updated == [compiler |-> [version |->
                                    composite_version(versions.value.revive_version,
                                                      versions.value.solc_version)]]
                 IN Some([raw_metadata |-> metadata_to_string(updated), metadata |-> updated])
            ELSE solc_metadata

InitContract ==
    /\ InitOthersIdle
    /\ called = "Contract::from"
    /\ arg \in {None, Some(JsonString("text"))} \cup {Some(m) : m \in MetadataObjects}
    /\ ret = <<>>

Contract_from == Return("Contract::from", contract_metadata(arg))

SpecContract == InitContract /\ [][Contract_from]_vars

\* the metadata object has the member as a string
HasString(map, key) == key \in DOMAIN map /\ map[key].type = "string"
\* the metadata is an object whose solc_metadata is a metadata document
HasSolcMetadata(m) ==
    /\ m.some /\ m.value \in MetadataObjects
    /\ "solc_metadata" \in DOMAIN m.value
    /\ m.value["solc_metadata"].type = "string"
    /\ m.value["solc_metadata"].s \in DOMAIN SolcMetadataDocs

\* C27: the converted contract has metadata exactly when solc_metadata is
\* there and can be parsed; its compiler version is the composite of
\* revive_version and solc_version exactly when the metadata object has both
\* as strings, and is the version of solc_metadata otherwise
C27_CompositeVersionIffBoth ==
    Returned("Contract::from") =>
        /\ ret[1].some <=> HasSolcMetadata(arg)
        /\ ret[1].some =>
            LET map == arg.value
                both == HasString(map, "revive_version") /\ HasString(map, "solc_version")
                version == ret[1].value.metadata.compiler.version
                original == <<SolcMetadataDocs[map["solc_metadata"].s]>>
            IN /\ both => version = composite_version(map["revive_version"].s,
                                                      map["solc_version"].s)
               /\ ~both => version = original
               /\ version # original <=> both

\* both versions are strings and the version of solc_metadata is replaced
C27_Witness ==
    /\ Returned("Contract::from")
    /\ ret[1].some
    /\ HasString(arg.value, "revive_version") /\ HasString(arg.value, "solc_version")
    /\ arg.value["solc_metadata"].s = "{compiler:0.8.29}"
    /\ ret[1].value.metadata.compiler.version =
            composite_version(arg.value["revive_version"].s, arg.value["solc_version"].s)
    /\ ret[1].value.metadata.compiler.version # <<"0.8.29">>

(***************************************************************************)
(* Resolc::available_versions (compilers/resolc/compiler.rs).               *)
(***************************************************************************)
\* the files of the compilers directory
MaxInstalled == 2

\* a file name: the prefix of the platform or another one, then [v], the
\* version major.minor.patch and a suffix
FileName(prefix, v, version, suffix) ==
    [prefix |-> prefix, v |-> v, version |-> version, suffix |-> suffix]

solc_prefix == "solc-linux-amd64-"

InstalledFileNames ==
    {FileName(solc_prefix, v, version, suffix) :
        v \in BOOLEAN, version \in {<<0, 8, 28>>, <<0, 8, 29>>}, suffix \in {"", "-old", "+b"}}
    \cup {FileName("resolc-linux-amd64-", FALSE, <<0, 8, 28>>, "")}

\* a semver::Version without pre-release part
InstalledVersion(version, build) ==
    [major |-> version[1], minor |-> version[2], patch |-> version[3], build |-> build]

\* e.strip_prefix(solc_prefix).and_then(|s| s.split('-').next())
\*  .and_then(|s| Version::parse(s).ok())
parse_file_name(e) ==
    IF e.prefix # solc_prefix THEN None
    ELSE IF e.v THEN None
    ELSE Some(InstalledVersion(e.version, IF e.suffix = "+b" THEN "b" ELSE ""))

\* Ord of semver::Version
Version_less(a, b) ==
    \/ a.major < b.major
    \/ a.major = b.major /\ a.minor < b.minor
    \/ a.major = b.major /\ a.minor = b.minor /\ a.patch < b.patch
    \/ a.major = b.major /\ a.minor = b.minor /\ a.patch = b.patch
        /\ a.build = "" /\ b.build # ""

\* the elements of a set in some order
RECURSIVE SetToSeq(_)
SetToSeq(S) ==
    IF S = {} THEN <<>>
    ELSE LET x == CHOOSE y \in S : TRUE IN <<x>> \o SetToSeq(S \ {x})

\* Resolc::solc_installed_versions: one version for every file whose name
\* can be parsed, sorted
solc_installed_versions(dir) ==
    LET entries == SetToSeq({e \in dir : parse_file_name(e).some})
    IN SortSeq([i \in DOMAIN entries |-> parse_file_name(entries[i]).value], Version_less)

\* Resolc::solc_available_versions
min_max_patch_by_minor_versions ==
    <<<<4, 12, 26>>, <<5, 0, 17>>, <<6, 0, 12>>, <<7, 0, 6>>, <<8, 0, 28>>>>

RECURSIVE solc_available_versions_from(_)
solc_available_versions_from(table) ==
    IF table = <<>> THEN <<>>
    ELSE LET minor == table[1][1]
             min_patch == table[1][2]
             max_patch == table[1][3]
         IN [k \in 1..(max_patch - min_patch + 1) |->
                InstalledVersion(<<0, minor, min_patch + k - 1>>, "")]
            \o solc_available_versions_from(Tail(table))

solc_available_versions == solc_available_versions_from(min_max_patch_by_minor_versions)

\* Ord of CompilerVersion (outside the given sources): Installed before
\* Remote, then the version
CompilerVersion_less(a, b) ==
    \/ a.variant = "Installed" /\ b.variant = "Remote"
    \/ a.variant = b.variant /\ Version_less(a.version, b.version)

triple(v) == <<v.major, v.minor, v.patch>>

\* .filter(|v| uniques.insert((v.major, v.minor, v.patch))): the versions
\* of a sequence whose triple is not in uniques and not met before
filter_insert(seq, uniques) ==
    LET keep == {i \in DOMAIN seq :
                    /\ triple(seq[i]) \notin uniques
                    /\ \A j \in 1..(i - 1) : triple(seq[j]) # triple(seq[i])}
        nth(k) == CHOOSE i \in keep : Cardinality({j \in keep : j <= i}) = k
    IN [k \in 1..Cardinality(keep) |-> seq[nth(k)]]

available_versions(dir) ==
    LET installed == solc_installed_versions(dir)
        versions == [i \in DOMAIN installed |->
                        [variant |-> "Installed", version |-> installed[i]]]
        uniques == {triple(installed[i]) : i \in DOMAIN installed}
        remote == filter_insert(solc_available_versions, uniques)
    IN SortSeq(versions \o [i \in DOMAIN remote |->
                                [variant |-> "Remote", version |-> remote[i]]],
               CompilerVersion_less)

InitAvailable ==
    /\ InitOthersIdle
    /\ called = "available_versions"
    /\ arg \in {dir \in SUBSET InstalledFileNames : Cardinality(dir) <= MaxInstalled}
    /\ ret = <<>>

available_versions_call == Return("available_versions", available_versions(arg))

SpecAvailable == InitAvailable /\ [][available_versions_call]_vars

SortedVersions(list) ==
    \A i, j \in DOMAIN list : i < j => ~CompilerVersion_less(list[j], list[i])
NoSharedTriple(list) ==
    \A i, j \in DOMAIN list : i # j => triple(list[i].version) # triple(list[j].version)
RemoteOnlyIfNotInstalled(list) ==
    \A i, j \in DOMAIN list :
        list[i].variant = "Remote" /\ list[j].variant = "Installed"
            => triple(list[i].version) # triple(list[j].version)

\* C28: whatever files are installed, the list of available_versions is
\* sorted in ascending order, no two of its entries have the same (major,
\* minor, patch), and a remote version is in it only if no installed version
\* has its (major, minor, patch)
C28_SortedWithoutDuplicates ==
    Returned("available_versions") =>
        /\ SortedVersions(ret[1])
        /\ NoSharedTriple(ret[1])
        /\ RemoteOnlyIfNotInstalled(ret[1])

\* what holds: the list is sorted and the remote versions in it have a
\* (major, minor, patch) of their own
SortedAndRemoteUnique ==
    Returned("available_versions") =>
        /\ SortedVersions(ret[1])
        /\ RemoteOnlyIfNotInstalled(ret[1])
        /\ \A i, j \in DOMAIN ret[1] :
                (i # j /\ ret[1][i].variant = "Remote")
                    => triple(ret[1][i].version) # triple(ret[1][j].version)

(***************************************************************************)
(* Artifacts, build infos and the cache of one run.                         *)
(***************************************************************************)
RunOver == runNo >= 1 /\ pc \in {"done", "failed"}

\* C29 as stated: a run writes the artifact files and the build infos if and
\* only if it writes the cache
C29_Original ==
    RunOver =>
        /\ hist.artifactsWritten <=> hist.cacheWritten
        /\ hist.buildInfosWritten <=> hist.cacheWritten

\* C29 amended: write_artifacts and write_cache decide by the same predicate,
\* no_artifacts false and no error in the output; a run writes artifact
\* files, build infos or the cache only if it holds, writes the cache only
\* after the artifacts and the build infos, and writes all of them if it
\* holds and the run returns Ok
C29_CacheOnlyAfterArtifacts ==
    /\ \A na, he \in BOOLEAN :
            /\ writes_artifacts(na, he) <=> ~skip_write_to_disk(na, he)
            /\ writes_artifacts(na, he) <=> (~na /\ ~he)
    /\ runNo >= 1 =>
        /\ (hist.artifactsWritten \/ hist.buildInfosWritten \/ hist.cacheWritten)
                => (~project.no_artifacts /\ ~has_error(output, project))
        /\ hist.cacheWritten => (hist.artifactsWritten /\ hist.buildInfosWritten)
        /\ hist.buildInfosWritten => hist.artifactsWritten
        /\ pc = "done" =>
            /\ hist.cacheWritten <=> (~project.no_artifacts /\ ~has_error(output, project))
            /\ hist.artifactsWritten <=> hist.cacheWritten
            /\ hist.buildInfosWritten <=> hist.cacheWritten

\* a run that wrote artifacts, build infos and the cache
C29_Witness ==
    /\ pc = "done"
    /\ hist.artifactsWritten /\ hist.buildInfosWritten /\ hist.cacheWritten
    /\ diskArtifacts # {}
    /\ ~has_error(output, project)

\* C30: at every point of the loop the files whose contracts have their
\* paths are not deeper than the files still to come, and of two files of one
\* depth the one that is first in path order comes first
C30_ShallowerFilesFirst ==
    apc = "loop" =>
        \A a \in artifacts : \A i \in DOMAIN todo :
            LET f == a.contract.file
                g == todo[i].file
            IN /\ Len(f) <= Len(g)
               /\ Len(f) = Len(g) => ~LexLess(g, f)

\* a file has its paths while a deeper one, which is before it in path order,
\* and one of its own depth are still to come
C30_Witness ==
    /\ apc = "loop"
    /\ \E a \in artifacts : \E i, j \in DOMAIN todo :
        /\ Len(a.contract.file) < Len(todo[i].file)
        /\ LexLess(todo[i].file, a.contract.file)
        /\ Len(a.contract.file) = Len(todo[j].file)
        /\ LexLess(a.contract.file, todo[j].file)

\* the versions and profiles that compiled the contract of an artifact
VersionsOf(a) == {c.version : c \in {x \in contracts :
                        x.file = a.contract.file /\ x.name = a.contract.name}}
ProfilesOf(a) == {c.profile : c \in {x \in contracts :
                        x.file = a.contract.file /\ x.name = a.contract.name}}

\* C31 as stated: with one version and one profile nothing is appended to the
\* name; with several versions or several profiles the version is appended,
\* and the profile too when there are several profiles
C31_Original ==
    \A a \in artifacts :
        /\ (Cardinality(VersionsOf(a)) = 1 /\ Cardinality(ProfilesOf(a)) = 1)
                => (a.file.version = 0 /\ a.file.profile = "")
        /\ (Cardinality(VersionsOf(a)) > 1 \/ Cardinality(ProfilesOf(a)) > 1)
                => a.file.version = a.contract.version
        /\ Cardinality(ProfilesOf(a)) > 1 => a.file.profile = a.contract.profile

\* C31 amended: the version is appended exactly when several versions
\* compiled the contract, the profile exactly when several profiles did
C31_VersionAndProfileApart ==
    \A a \in artifacts :
        /\ a.file.name = a.contract.name
        /\ a.file.version = IF Cardinality(VersionsOf(a)) > 1 THEN a.contract.version ELSE 0
        /\ a.file.profile = IF Cardinality(ProfilesOf(a)) > 1 THEN a.contract.profile ELSE ""

\* a contract of one version and two profiles: the profile alone is appended
C31_Witness ==
    /\ apc = "done"
    /\ \E a \in artifacts :
        /\ Cardinality(VersionsOf(a)) = 1
        /\ Cardinality(ProfilesOf(a)) = 2
        /\ a.file.version = 0
        /\ a.file.profile = a.contract.profile

\* C32: every job handed to compile_sequential or compile_parallel, and so
\* every invocation of the compiler, has a source map and a list of dirty
\* files that are not empty
C32_NoEmptyInvocation ==
    /\ \A k \in DOMAIN jobs : jobs[k].sources # {} /\ jobs[k].dirty # {}
    /\ \A k \in hist.invoked : k \in DOMAIN jobs /\ jobs[k].dirty # {}

\* of two sets one has nothing dirty: it gets no job, the other is invoked
C32_Witness ==
    /\ pc = "compiling"
    /\ \E i \in DOMAIN sources : sources[i].dirty = {}
    /\ Len(jobs) = 1
    /\ hist.invoked = {1}


(***************************************************************************)
(* Installing a compiler binary: get_path_for_version, find_installed_-     *)
(* version, compiler_blocking_install, try_lock_file and the drop of        *)
(* LockFile, run by concurrent callers for one compiler version.  Each      *)
(* system call is a step.  The lock is an flock on the open file, so it     *)
(* belongs to the inode the caller opened, not to the path.                 *)
(***************************************************************************)
MaxInstallers == 3
Installers == 1..MaxInstallers

\* the binary at compiler_path: its state and the installer that created it
Missing == [state |-> "missing", by |-> 0]
Preinstalled == [state |-> "executable", by |-> 0]

otherVars == <<runVars, pathVars, mergeVars, called, arg, ret>>

\* mutant: the target path is never found
exists_never(binary) == FALSE

\* compiler_path.exists()
exists(binary) == binary.state # "missing"

InitInstall ==
    /\ RunIdle(CHOOSE p \in Projects : TRUE)
    /\ InitPathsIdle
    /\ InitMergeIdle
    /\ called = "install"
    /\ arg = <<>>
    /\ ret = <<>>
    /\ \E b \in {Missing, Preinstalled} :
          install = [ipc |-> [p \in Installers |-> "start"],
                     status |-> [p \in Installers |-> ""],
                     fd |-> [p \in Installers |-> 0],
                     res |-> [p \in Installers |-> ""],
                     observed |-> [p \in Installers |-> ""],
                     created |-> {},
                     lock_path |-> 0,
                     inodes |-> 0,
                     holder |-> [i \in Installers |-> 0],
                     binary |-> b,
                     binary0 |-> b]

\* get_path_for_version: find_installed_version answers Some(path) when the
\* path is a file, otherwise the binary is installed
get_path_for_version(p) ==
    /\ install.ipc[p] = "start"
    /\ IF install.binary.state # "missing"
          THEN install' = [install EXCEPT !.ipc[p] = "found",
                                          !.observed[p] = install.binary.state]
          ELSE install' = [install EXCEPT !.ipc[p] = "download"]
    /\ UNCHANGED otherVars

\* try_lock_file: open the lock path (creating the file when the path has
\* none), then block in lock_exclusive until the opened file is unlocked
try_lock_file(p) ==
    /\ \/ /\ install.ipc[p] = "open"
          /\ IF install.lock_path # 0
                THEN install' = [install EXCEPT !.ipc[p] = "wait",
                                                !.fd[p] = install.lock_path]
                ELSE install' = [install EXCEPT !.ipc[p] = "wait",
                                                !.fd[p] = install.inodes + 1,
                                                !.lock_path = install.inodes + 1,
                                                !.inodes = install.inodes + 1]
       \/ /\ install.ipc[p] = "wait"
          /\ install.holder[install.fd[p]] = 0
          /\ install' = [install EXCEPT !.ipc[p] = "check",
                                        !.holder[install.fd[p]] = p]
    /\ UNCHANGED otherVars

\* the drop of LockFile: remove_file(lock_path), its error ignored, then the
\* file is closed, which releases the lock
LockFile_drop(p) ==
    /\ \/ /\ install.ipc[p] = "drop"
          /\ install' = [install EXCEPT !.ipc[p] = "close", !.lock_path = 0]
       \/ /\ install.ipc[p] = "close"
          /\ install' = [install EXCEPT !.ipc[p] = "returned",
                                        !.holder[install.fd[p]] = 0,
                                        !.fd[p] = 0]
    /\ UNCHANGED otherVars

\* compiler_blocking_install without the lock calls: the request, the check
\* of the target path, File::create, write_all and set_permissions; each of
\* them can fail, and `?` then returns the error through the drop
compiler_blocking_install(p) ==
    /\ \/ /\ install.ipc[p] = "start"
          /\ install' = [install EXCEPT !.ipc[p] = "download"]
       \/ /\ install.ipc[p] = "download"
          /\ install' = [install EXCEPT !.ipc[p] = "open", !.status[p] = "ok"]
       \/ /\ install.ipc[p] = "download"
          /\ install' = [install EXCEPT !.ipc[p] = "returned", !.status[p] = "fail",
                                        !.res[p] = "Err"]
       \/ /\ install.ipc[p] = "check"
          /\ IF exists(install.binary)
                THEN install' = [install EXCEPT !.ipc[p] = "drop", !.res[p] = "Ok"]
                ELSE install' = [install EXCEPT !.ipc[p] = "create"]
       \/ /\ install.ipc[p] = "create"
          /\ install' = [install EXCEPT !.ipc[p] = "write",
                                        !.created = @ \cup {p},
                                        !.binary = [state |-> "created", by |-> p]]
       \/ /\ install.ipc[p] = "write"
          /\ install' = [install EXCEPT !.ipc[p] = "chmod",
                                        !.binary = [state |-> "written", by |-> p]]
       \/ /\ install.ipc[p] = "chmod"
          /\ install' = [install EXCEPT !.ipc[p] = "drop", !.res[p] = "Ok",
                                        !.binary = [state |-> "executable", by |-> p]]
       \/ /\ install.ipc[p] \in {"create", "write", "chmod"}
          /\ install' = [install EXCEPT !.ipc[p] = "drop", !.res[p] = "Err"]
    /\ UNCHANGED otherVars

SpecInstall ==
    InitInstall /\ [][\E p \in Installers : \/ get_path_for_version(p)
                                            \/ try_lock_file(p)
                                            \/ compiler_blocking_install(p)
                                            \/ LockFile_drop(p)]_vars

\* the installer is inside the section guarded by the LockFile
InSection(p) == install.ipc[p] \in {"check", "create", "write", "chmod"}

\* C33: two installers of the same version are never inside the guarded
\* section (check of the binary, write, permissions) at the same time
C33_MutualExclusion ==
    \A p, q \in Installers : p # q => ~(InSection(p) /\ InSection(q))

\* C34: a binary that find_installed_version reports as installed is
\* completely written and executable
C34_InstalledIsComplete ==
    \A p \in Installers : install.ipc[p] = "found" => install.observed[p] = "executable"

Path(abs, comps) == [abs |-> abs, comps |-> comps]

\* Path::starts_with
starts_with(p, base) == p.abs = base.abs /\ IsPrefix(base.comps, p.comps)

\* strip_prefix_owned: the path without the base, or the path itself when
\* it is not under the base
strip_prefix_owned(p, base) ==
    IF starts_with(p, base)
       THEN Path(FALSE, SubSeq(p.comps, Len(base.comps) + 1, Len(p.comps)))
       ELSE p

\* Path::join: an absolute path replaces the root
join(root, p) == IF p.abs THEN p ELSE Path(root.abs, root.comps \o p.comps)

\* the order of paths: component by component, the root directory first
CompOrd == ("a" :> 1) @@ ("b" :> 2) @@ ("d" :> 3) @@ ("o" :> 4) @@ ("r" :> 5)
path_key(p) == (IF p.abs THEN <<0>> ELSE <<>>) \o [i \in 1..Len(p.comps) |-> CompOrd[p.comps[i]]]
path_less(p, q) ==
    LET s == path_key(p)
        t == path_key(q)
    IN  \E i \in 1..(Len(s) + 1) :
           /\ \A j \in 1..(i - 1) : j <= Len(t) /\ s[j] = t[j]
           /\ \/ i > Len(s) /\ i <= Len(t)
              \/ i <= Len(s) /\ i <= Len(t) /\ s[i] < t[i]

\* into_iter().map(key).collect() on a BTreeMap: the entries are visited in
\* the order of their keys and a later entry replaces an earlier one with
\* the same new key
map_keys(m, root, key(_, _)) ==
    LET new == {key(p, root) : p \in DOMAIN m}
    IN  [k \in new |->
           m[CHOOSE p \in DOMAIN m :
                /\ key(p, root) = k
                /\ \A q \in DOMAIN m : key(q, root) = k /\ q # p => path_less(q, p)]]

\* ResolcInput::strip_prefix on the sources
ResolcInput_strip_prefix(srcs, base) == map_keys(srcs, base, strip_prefix_owned)

joined(p, root) == join(root, p)

\* mutant: only the sources are joined
join_all_sources_only(out, root) ==
    [contracts |-> out.contracts, sources |-> map_keys(out.sources, root, joined)]

\* ResolcCompilerOutput::join_all
join_all(out, root) ==
    [contracts |-> map_keys(out.contracts, root, joined),
     sources |-> map_keys(out.sources, root, joined)]

\* roots and source paths: with an absolute root the source paths are
\* absolute, three of them under the root
InitJoin ==
    /\ InitOthersIdle
    /\ called = "join_all"
    /\ ret = <<>>
    /\ \E abs \in BOOLEAN :
       \E S \in SUBSET {<<"r", "a">>, <<"r", "b">>, <<"r", "d", "a">>, <<"o", "a">>} :
       \E C \in SUBSET S :
          /\ S # {}
          /\ arg = [root |-> Path(abs, <<"r">>),
                    sources |-> [p \in {Path(abs, c) : c \in S} |-> p],
                    with_contracts |-> {Path(abs, c) : c \in C}]

\* the stage for one invocation: the compiler sees the stripped sources and
\* names its output entries by them; an entry is modelled by the path of the
\* source it comes from
compile_join_all ==
    LET stripped == ResolcInput_strip_prefix(arg.sources, arg.root)
        out == [contracts |-> [p \in {q \in DOMAIN stripped : stripped[q] \in arg.with_contracts}
                                 |-> stripped[p]],
                sources |-> stripped]
        once == join_all(out, arg.root)
    IN  /\ Return("join_all", [stripped |-> stripped, out |-> out, once |-> once,
                               twice |-> join_all(once, arg.root)])

SpecJoin == InitJoin /\ [][compile_join_all]_vars

\* C36: for an absolute root, every entry of the output is back under the
\* absolute path of its source after join_all, with as many source and
\* contract entries as before, and a second join_all changes nothing
C36_StripJoinRoundTrip ==
    Returned("join_all") /\ arg.root.abs =>
       LET r == ret[1]
       IN  /\ \A p \in DOMAIN arg.sources :
                starts_with(p, arg.root) =>
                   /\ p \in DOMAIN r.once.sources /\ r.once.sources[p] = p
                   /\ p \in arg.with_contracts =>
                         p \in DOMAIN r.once.contracts /\ r.once.contracts[p] = p
           /\ Cardinality(DOMAIN r.once.sources) = Cardinality(DOMAIN arg.sources)
           /\ Cardinality(DOMAIN r.once.contracts) = Cardinality(arg.with_contracts)
           /\ r.twice = r.once

C36_Witness ==
    /\ Returned("join_all")
    /\ arg.root.abs
    /\ Cardinality(DOMAIN arg.sources) = 3
    /\ Cardinality(arg.with_contracts) = 2
    /\ \E p \in DOMAIN arg.sources : ~starts_with(p, arg.root)
    /\ \E p \in DOMAIN ret[1].out.sources : ~p.abs /\ p.comps = <<"d", "a">>
    /\ ret[1].once # ret[1].out

\* with a relative root the second join_all adds the root once more
JoinRelativeRootRepeats ==
    Returned("join_all") /\ ~arg.root.abs => ret[1].twice # ret[1].once


(***************************************************************************)
(* Serialize and Deserialize of ResolcJsonSettings.  A JSON object is a     *)
(* function from member names to values; a string, a number and null are    *)
(* records with a type.  Settings is reduced to its optimizer.enabled and   *)
(* viaIR members.                                                           *)
(***************************************************************************)
Null == [type |-> "null"]
JsonU64(n) == [type |-> "number", n |-> n]
JsonBool(b) == [type |-> "bool", b |-> b]
is_object(v) == "type" \notin DOMAIN v

\* Map::insert
insert(obj, key, v) == [k \in DOMAIN obj \cup {key} |-> IF k = key THEN v ELSE obj[k]]

\* entry(key).or_insert_with(|| Value::Object(Map::new()))
or_insert_object(obj, key) == IF key \in DOMAIN obj THEN obj ELSE insert(obj, key, <<>>)

\* and_then(|v| v.get(key))
and_then_get(o, key) == IF o.some THEN get(o.value, key) ELSE None

\* Value::as_u64
as_u64(o) ==
    IF o.some /\ ~is_object(o.value) /\ o.value.type = "number" THEN Some(o.value.n) ELSE None

\* to_value(&self.settings): the optimizer is always written, an option
\* only when it is set
to_value_Settings(settings) ==
    LET optimizer == IF settings.optimizer.enabled.some
                        THEN insert(<<>>, "enabled", JsonBool(settings.optimizer.enabled.value))
                        ELSE <<>>
        json == insert(<<>>, "optimizer", optimizer)
    IN  IF settings.via_ir.some
           THEN insert(json, "viaIR", JsonBool(settings.via_ir.value))
           ELSE json

\* serde_json::from_value::<Settings>: an object gives the settings, members
\* it does not know are skipped; any other value is an error
from_value_Settings(v) ==
    IF ~is_object(v) THEN Err("invalid type")
    ELSE LET enabled == and_then_get(get(v, "optimizer"), "enabled")
             via_ir == get(v, "viaIR")
         IN  Ok([optimizer |-> [enabled |-> IF enabled.some THEN Some(enabled.value.b) ELSE None],
                 via_ir |-> IF via_ir.some THEN Some(via_ir.value.b) ELSE None])

\* impl Serialize for ResolcJsonSettings: the JSON value handed to the
\* serializer
ResolcJsonSettings_serialize(self) ==
    LET settings_obj == to_value_Settings(self.settings)
        with_mode ==
            IF self.optimizer_mode.some
               THEN LET o == or_insert_object(settings_obj, "optimizer")
                    IN  insert(o, "optimizer",
                               insert(o["optimizer"], "mode", JsonString(self.optimizer_mode.value)))
               ELSE settings_obj
        with_polkavm == or_insert_object(with_mode, "polkavm")
        memory_config == or_insert_object(with_polkavm["polkavm"], "memory_config")["memory_config"]
        with_heap == IF self.heap_size.some
                        THEN insert(memory_config, "heap_size", JsonU64(self.heap_size.value))
                        ELSE memory_config
        with_stack == IF self.stack_size.some
                         THEN insert(with_heap, "stack_size", JsonU64(self.stack_size.value))
                         ELSE with_heap
    IN  insert(with_polkavm, "polkavm",
               insert(with_polkavm["polkavm"], "memory_config", with_stack))

\* impl Deserialize for ResolcJsonSettings, from the JSON value read
ResolcJsonSettings_deserialize(value) ==
    IF ~get(value, "settings").some THEN Err("missing field settings")
    ELSE LET settings == from_value_Settings(value["settings"])
             \* settings_val.take() leaves Value::Null in its place
             json == insert(value, "settings", Null)
             mode == and_then_get(and_then_get(get(json, "settings"), "optimizer"), "mode")
             memory_config ==
                 and_then_get(and_then_get(get(json, "settings"), "polkavm"), "memory_config")
         IN  IF ~settings.ok THEN settings
             ELSE Ok([settings |-> settings.value,
                      optimizer_mode |-> IF mode.some /\ ~is_object(mode.value)
                                            THEN as_str(mode.value) ELSE None,
                      heap_size |-> as_u64(and_then_get(memory_config, "heap_size")),
                      stack_size |-> as_u64(and_then_get(memory_config, "stack_size"))])

InitJsonSettings ==
    /\ InitOthersIdle
    /\ called = "settings_json"
    /\ ret = <<>>
    /\ arg \in [settings : [optimizer : [enabled : {None, Some(TRUE), Some(FALSE)}],
                            via_ir : {None, Some(TRUE)}],
                heap_size : {None, Some(1), Some(2)},
                stack_size : {None, Some(3)},
                optimizer_mode : {None, Some("z")}]

\* from_value(to_value(settings))
settings_round_trip ==
    Return("settings_json", ResolcJsonSettings_deserialize(ResolcJsonSettings_serialize(arg)))

\* the same with the serialized settings as the `settings` member of the
\* document read
settings_round_trip_in_document ==
    Return("settings_json",
           ResolcJsonSettings_deserialize(insert(<<>>, "settings", ResolcJsonSettings_serialize(arg))))

SpecJsonSettings ==
    InitJsonSettings /\ [][settings_round_trip \/ settings_round_trip_in_document]_vars

\* C37: deserializing the JSON that Serialize produces for a settings value
\* succeeds and gives an equal value
C37_SettingsRoundTrip ==
    Returned("settings_json") => ret[1] = Ok(arg)

\* what holds instead: the value read back, if any, has the Settings of the
\* value written and none of heap_size, stack_size and optimizer_mode
SettingsReadBackWithoutSizes ==
    Returned("settings_json") /\ ret[1].ok =>
       /\ ret[1].value.settings = arg.settings
       /\ ret[1].value.heap_size = None
       /\ ret[1].value.stack_size = None
       /\ ret[1].value.optimizer_mode = None


(***************************************************************************)
(* ResolcSettings::can_use_cached.  Every field compared for equality has   *)
(* one of two values; the output selection is a map from file keys to sets  *)
(* of items; the CLI settings are one value.                                *)
(***************************************************************************)
SettingsFields ==
    {"stop_after", "remappings", "optimizer", "model_checker", "metadata", "evm_version",
     "via_ir", "debug", "libraries", "eof_version", "stack_size", "heap_size",
     "optimizer_mode"}

OutputSelections == {<<>>, [all |-> {"abi"}], [all |-> {"abi", "ast"}],
                     [all |-> {"abi"}, file |-> {"ast"}]}

\* the settings with the fields of changed set to 1 and the others to 0
settings_with(changed, selection, cli) ==
    [f \in SettingsFields |-> IF f \in changed THEN 1 ELSE 0]
        @@ [output_selection |-> selection, cli_settings |-> cli]

\* OutputSelection::is_subset_of
is_subset_of(self, other) ==
    \A file \in DOMAIN self : file \in DOMAIN other /\ self[file] \subseteq other[file]

\* mutant: heap_size is not compared
can_use_cached_without_heap_size(self, other) ==
    /\ self.stop_after = other.stop_after
    /\ self.remappings = other.remappings
    /\ self.optimizer = other.optimizer
    /\ self.model_checker = other.model_checker
    /\ self.metadata = other.metadata
    /\ self.evm_version = other.evm_version
    /\ self.via_ir = other.via_ir
    /\ self.debug = other.debug
    /\ self.libraries = other.libraries
    /\ self.eof_version = other.eof_version
    /\ is_subset_of(self.output_selection, other.output_selection)
    /\ self.stack_size = other.stack_size
    /\ self.optimizer_mode = other.optimizer_mode

\* ResolcSettings::can_use_cached
can_use_cached(self, other) ==
    /\ self.stop_after = other.stop_after
    /\ self.remappings = other.remappings
    /\ self.optimizer = other.optimizer
    /\ self.model_checker = other.model_checker
    /\ self.metadata = other.metadata
    /\ self.evm_version = other.evm_version
    /\ self.via_ir = other.via_ir
    /\ self.debug = other.debug
    /\ self.libraries = other.libraries
    /\ self.eof_version = other.eof_version
    /\ is_subset_of(self.output_selection, other.output_selection)
    /\ self.stack_size = other.stack_size
    /\ self.heap_size = other.heap_size
    /\ self.optimizer_mode = other.optimizer_mode

\* two settings that differ from the default in at most one compared field
\* each, with any output selection and CLI settings
InitCanUseCached ==
    /\ InitOthersIdle
    /\ called = "can_use_cached"
    /\ ret = <<>>
    /\ \E A, B \in {S \in SUBSET SettingsFields : Cardinality(S) <= 1} :
       \E sa, sb \in OutputSelections :
       \E ca, cb \in {"no paths", "base, allow and include paths"} :
          arg = [self |-> settings_with(A, sa, ca), other |-> settings_with(B, sb, cb)]

can_use_cached_call ==
    Return("can_use_cached",
           [self_other |-> can_use_cached(arg.self, arg.other),
            self_self |-> can_use_cached(arg.self, arg.self),
            with_cli_of_other |->
                can_use_cached([arg.self EXCEPT !.cli_settings = arg.other.cli_settings],
                               arg.other)])

SpecCanUseCached == InitCanUseCached /\ [][can_use_cached_call]_vars

\* C39: can_use_cached holds exactly when the thirteen fields are equal and
\* self's output selection is a subset of other's; it is reflexive and does
\* not depend on the CLI settings
C39_EqualFieldsAndSubsetSelection ==
    Returned("can_use_cached") =>
        /\ ret[1].self_other <=>
              /\ \A f \in SettingsFields : arg.self[f] = arg.other[f]
              /\ \A file \in DOMAIN arg.self.output_selection :
                    /\ file \in DOMAIN arg.other.output_selection
                    /\ \A item \in arg.self.output_selection[file] :
                          item \in arg.other.output_selection[file]
        /\ ret[1].self_self
        /\ ret[1].with_cli_of_other = ret[1].self_other

C39_Witness ==
    /\ Returned("can_use_cached")
    /\ ret[1].self_other
    /\ arg.self.heap_size = 1
    /\ arg.self.output_selection # arg.other.output_selection
    /\ arg.self.output_selection # <<>>
    /\ arg.self.cli_settings # arg.other.cli_settings
    /\ ~can_use_cached(arg.other, arg.self)


(***************************************************************************)
(* ResolcVersionedInput::build.  The output selection is a map from (file   *)
(* key, contract key) to the set of items selected.                         *)
(***************************************************************************)
\* Settings::sanitize: settings the version does not know are dropped (viaIR
\* before 0.7.5), the output selection is kept
sanitized(settings, version, language) ==
    [settings EXCEPT !.via_ir = IF version.minor < 7 \/ (version.minor = 7 /\ version.patch < 5)
                                   THEN None ELSE @]

\* mutant: the output selection is passed on as it is
build_unfiltered(srcs, settings, language, version) ==
    [input |-> [language |-> language, sources |-> srcs,
                settings |-> [settings |-> sanitized(settings.settings, version, language),
                              cli_settings |-> settings.cli_settings]],
     solc_version |-> version]

\* ResolcVersionedInput::build
build(srcs, settings, language, version) ==
    LET hash_set == {"abi", "metadata", "devdoc", "userdoc", "evm.methodIdentifiers",
                     "storageLayout", "ast", "irOptimized", "evm.legacyAssembly",
                     "evm.bytecode", "evm.deployedBytecode", "evm.assembly", "ir"}
        json_settings == sanitized(settings.settings, version, language)
        selection == json_settings.output_selection
        retained == [key \in DOMAIN selection |-> selection[key] \cap hash_set]
    IN  [input |-> [language |-> language, sources |-> srcs,
                    settings |-> [settings |-> [json_settings EXCEPT !.output_selection = retained],
                                  cli_settings |-> settings.cli_settings]],
         solc_version |-> version]

InitBuild ==
    /\ InitOthersIdle
    /\ called = "build"
    /\ ret = <<>>
    /\ \E keys \in SUBSET {<<"*", "*">>, <<"*", "">>, <<"a.sol", "C">>} :
       \E selection \in [keys -> SUBSET {"abi", "evm.bytecode", "evm.gasEstimates", "*"}] :
       \E srcs \in SUBSET SourceNames :
       \E language \in {"Solidity", "Yul"} :
       \E version \in {SemVer(0, 7, 4, ""), SemVer(0, 8, 28, "")} :
          arg = [sources |-> srcs, language |-> language, version |-> version,
                 settings |-> [settings |-> [output_selection |-> selection,
                                             via_ir |-> Some(TRUE)],
                               cli_settings |-> "base path"]]

build_call == Return("build", build(arg.sources, arg.settings, arg.language, arg.version))

SpecBuild == InitBuild /\ [][build_call]_vars

\* C40: after build every item of the output selection, under every file
\* and contract key, is one of the thirteen allowed items, and the sources,
\* the language and the version are the ones passed in
C40_OnlyAllowedOutputs ==
    Returned("build") =>
        LET selection == ret[1].input.settings.settings.output_selection
        IN  /\ \A key \in DOMAIN selection :
                  selection[key] \subseteq
                     {"abi", "metadata", "devdoc", "userdoc", "evm.methodIdentifiers",
                      "storageLayout", "ast", "irOptimized", "evm.legacyAssembly",
                      "evm.bytecode", "evm.deployedBytecode", "evm.assembly", "ir"}
            /\ DOMAIN selection = DOMAIN arg.settings.settings.output_selection
            /\ ret[1].input.sources = arg.sources
            /\ ret[1].input.language = arg.language
            /\ ret[1].solc_version = arg.version

C40_Witness ==
    /\ Returned("build")
    /\ arg.settings.settings.output_selection =
          (<<"*", "*">> :> {"abi", "evm.gasEstimates"}) @@ (<<"a.sol", "C">> :> {"*"})
    /\ ret[1].input.settings.settings.output_selection =
          (<<"*", "*">> :> {"abi"}) @@ (<<"a.sol", "C">> :> {})
    /\ arg.sources = SourceNames
    /\ arg.version.minor = 7
    /\ ret[1].input.settings.settings.via_ir = None

=============================================================================
